---- MODULE Spec2Model ----
(***************************************************************************)
(* A model of the editing core of kilo-rs: the line buffer with its tab    *)
(* rendering and syntax highlighting (src/src/buffer.rs), the cursor and   *)
(* viewport (EditorScreen, src/src/screen.rs) and the command dispatch     *)
(* (Pane::process_command, src/src/pane.rs).                               *)
(*                                                                         *)
(* A Rust String is modelled as a sequence of one-character strings.  The  *)
(* alphabets used are ASCII, so a byte index (String::len, String::insert, *)
(* slicing) and a char index (chars().nth, chars().take) coincide.         *)
(* Indices are 0-based in the source and kept 0-based in the operators'    *)
(* parameters; the sequences themselves are 1-based.                       *)
(***************************************************************************)
EXTENDS Integers, Sequences, FiniteSets, TLC

\* ---------------------------------------------------------------- bounds
MaxLines == 3      \* most lines an edit may grow the buffer to
MaxChars == 3      \* most characters (over all lines) an edit may grow the buffer to
ScreenWidth == 3   \* component.width of the text area
ScreenHeight == 2  \* component.height of the text area
MaxScanRows == 3   \* most lines of a loaded file
MaxScanLen == 4    \* longest line of a loaded file
MaxScanChars == 6  \* most characters (over all lines) of a loaded file
MaxTokens == 5     \* most tokens of a line of a one-line file
MaxFindRows == 2   \* most lines of a buffer that is searched
MaxFindLen == 3    \* most characters of a line of such a buffer
MaxQuery == 2      \* most characters of a query
MaxSearchRows == 2 \* most lines of a file in which a search session runs
MaxSearchChars == 2 \* most characters (over all lines) of such a file
MaxZeroReads == 2  \* most zero-byte reads within one call of read_editor_key

\* ------------------------------------------------------ program constants
TAB_STOP == 8

\* crate::QUIT_TIMES (its definition is not among the sources; the quit
\* protocol is the same for every positive value)
QUIT_TIMES == 3

NUL == "NUL"   \* the character '\0'

\* ---------------------------------------------------------------- helpers
Min(a, b) == IF a < b THEN a ELSE b

\* s.chars().skip(i).take(n)
SkipTake(s, i, n) == SubSeq(s, i + 1, Min(Len(s), i + n))

\* Vec::insert / String::insert at 0-based index i (i <= Len(s))
InsertAt(s, i, e) == SubSeq(s, 1, i) \o <<e>> \o SubSeq(s, i + 1, Len(s))

\* Vec::remove / String::remove at 0-based index i (i < Len(s))
RemoveAt(s, i) == SubSeq(s, 1, i) \o SubSeq(s, i + 2, Len(s))

\* ------------------------------------------------- buffer.rs: tab rendering

\* the inner `while i % TAB_STOP != 0` loop of convert_render
RECURSIVE convert_render_pad(_, _)
convert_render_pad(render, i) ==
    IF i % TAB_STOP # 0
    THEN convert_render_pad(Append(render, " "), i + 1)
    ELSE [render |-> render, i |-> i]

\* the `for c in line.chars()` loop of convert_render; k is the 1-based
\* position of the next source character, i the loop's counter
RECURSIVE convert_render_loop(_, _, _, _)
convert_render_loop(line, k, i, render) ==
    IF k > Len(line) THEN render
    ELSE IF line[k] = "\t"
         THEN LET p == convert_render_pad(Append(render, " "), i + 1)
              IN  convert_render_loop(line, k + 1, p.i + 1, p.render)
         ELSE convert_render_loop(line, k + 1, i + 1, Append(render, line[k]))

convert_render(line) == convert_render_loop(line, 1, 0, <<>>)

\* the loop of EditorBuffer::cx_to_rx over line.chars().take(cx)
RECURSIVE cx_to_rx_loop(_, _, _, _)
cx_to_rx_loop(line, cx, k, rx) ==
    IF k > Min(cx, Len(line)) THEN rx
    ELSE LET r == IF line[k] = "\t" THEN rx + ((TAB_STOP - 1) - (rx % TAB_STOP)) ELSE rx
         IN  cx_to_rx_loop(line, cx, k + 1, r + 1)

\* cx_to_rx on the raw content of one line
line_cx_to_rx(line, cx) == cx_to_rx_loop(line, cx, 1, 0)

\* ------------------------------------------------- buffer.rs: file types
\* Option<FileType>: "None" or "C"
FileTypes == {"None", "C"}

\* Option<String>: None, or Some(path) with the path as its characters
NoPath == <<>>
SomePath(path) == <<path>>

\* str::ends_with
ends_with(s, suffix) ==
    /\ Len(suffix) <= Len(s)
    /\ SubSeq(s, Len(s) - Len(suffix) + 1, Len(s)) = suffix

\* FileType::extension of FileType::C
extension == {<<".", "c">>, <<".", "h">>, <<".", "c", "p", "p">>}

\* FileType::select_file_type
select_file_type(path) ==
    IF \E e \in extension : ends_with(path, e) THEN "C" ELSE "None"

\* the name of a C source file
CPath == <<"a", ".", "c">>

\* FileType::keyword1
keyword1(file_type) ==
    << <<"s", "w", "i", "t", "c", "h">>,
       <<"i", "f">>,
       <<"w", "h", "i", "l", "e">>,
       <<"f", "o", "r">>,
       <<"b", "r", "e", "a", "k">>,
       <<"c", "o", "n", "t", "i", "n", "u", "e">>,
       <<"r", "e", "t", "u", "r", "n">>,
       <<"e", "l", "s", "e">>,
       <<"s", "t", "r", "u", "c", "t">>,
       <<"u", "n", "i", "o", "n">>,
       <<"t", "y", "p", "e", "d", "e", "f">>,
       <<"s", "t", "a", "t", "i", "c">>,
       <<"e", "n", "u", "m">>,
       <<"c", "l", "a", "s", "s">>,
       <<"c", "a", "s", "e">> >>

\* FileType::keyword2
keyword2(file_type) ==
    << <<"i", "n", "t">>,
       <<"l", "o", "n", "g">>,
       <<"d", "o", "u", "b", "l", "e">>,
       <<"f", "l", "o", "a", "t">>,
       <<"c", "h", "a", "r">>,
       <<"u", "n", "s", "i", "g", "n", "e", "d">>,
       <<"s", "i", "g", "n", "e", "d">>,
       <<"v", "o", "i", "d">> >>

\* FileType::is_highlight: every highlight type is enabled for C
is_highlight(file_type, highlight_type) == file_type = "C"

singleline_comment_start(file_type) == <<"/", "/">>
multiline_comment_start(file_type) == <<"/", "*">>
multiline_comment_end(file_type) == <<"*", "/">>

is_separator(c) ==
    c \in {" ", "\t", "\r", "\n", NUL, ",", ".", "(", ")", "+", "-", "/", "*",
           "=", "%", "<", ">", "[", "]"}

is_ascii_digit(c) == c \in {"0", "1", "2", "3", "4", "5", "6", "7", "8", "9"}

\* enum Highlight
Highlight == {"Normal", "Number", "Match", "String", "Comment",
              "MultilineComment", "Keyword1", "Keyword2"}

\* highlight[j] = tag for j in from..to (0-based, `to` excluded)
SetRange(highlight, from, to, tag) ==
    [j \in 1..Len(highlight) |-> IF from < j /\ j <= to THEN tag ELSE highlight[j]]

\* Vec::resize(n, Highlight::Normal)
Resize(highlight, n) ==
    [j \in 1..n |-> IF j <= Len(highlight) THEN highlight[j] ELSE "Normal"]

\* ------------------------------------------------- buffer.rs: highlighter
\* The locals of EditorLine::clear_highlight are kept in a record st:
\*   i, highlight, prev_highlight, prev_separator, prev_char, in_string,
\*   in_comment, quote, and returned (the early `return false` was taken)

\* the closure keyword_func of EditorLine::clear_highlight: the length of the
\* first keyword (from index n of the list on) that matches at i and passes the
\* end test, 0 when there is none
RECURSIVE keyword_func_loop(_, _, _, _)
keyword_func_loop(render, keywords, n, i) ==
    IF n > Len(keywords) THEN 0
    ELSE IF /\ keywords[n] = SkipTake(render, i, Len(keywords[n]))
            /\ \/ i + Len(keywords[n]) = Len(render)
               \/ /\ i + Len(keywords[n]) + 1 < Len(render)
                  /\ is_separator(render[i + Len(keywords[n]) + 1 + 1])
    THEN Len(keywords[n])
    ELSE keyword_func_loop(render, keywords, n + 1, i)

\* keyword_func returned true having matched n characters: the tags, `*i += n`,
\* `*prev_highlight = keyword_highlight`, then `continue 'char_loop`
keyword_matched(st, n, keyword_highlight) ==
    [st EXCEPT !.highlight = SetRange(st.highlight, st.i, st.i + n, keyword_highlight),
               !.i = st.i + n,
               !.prev_highlight = keyword_highlight]

\* the three assignments that end an iteration of 'char_loop, and `i += 1`
char_loop_tail(st, c) ==
    [st EXCEPT !.prev_separator = is_separator(c),
               !.prev_highlight = st.highlight[st.i + 1],
               !.prev_char = c,
               !.i = st.i + 1]

\* keyword_func over one keyword list: n is the matched length
keyword_func(st, c, n, keyword_highlight) ==
    IF n > 0 THEN keyword_matched(st, n, keyword_highlight) ELSE char_loop_tail(st, c)

\* the Keyword2 branch and the end of the iteration
keyword2_branch(render, st, c, file_type) ==
    IF is_highlight(file_type, "Keyword2") /\ st.prev_separator /\ ~st.in_comment
    THEN keyword_func(st, c, keyword_func_loop(render, keyword2(file_type), 1, st.i),
                      "Keyword2")
    ELSE char_loop_tail(st, c)

\* the Keyword1 branch: n is what keyword_func finds in the first list
keyword1_found(render, st, c, file_type, n) ==
    IF n > 0 THEN keyword_matched(st, n, "Keyword1")
    ELSE keyword2_branch(render, st, c, file_type)

\* the keyword branches (Keyword1, then Keyword2) and the end of the iteration
keyword_branch(render, st, c, file_type) ==
    IF is_highlight(file_type, "Keyword1") /\ st.prev_separator /\ ~st.in_comment
    THEN keyword1_found(render, st, c, file_type,
                        keyword_func_loop(render, keyword1(file_type), 1, st.i))
    ELSE keyword2_branch(render, st, c, file_type)

\* a faulty number branch: a point after a Number character is left alone
number_branch_no_point(st, c, file_type) ==
    IF ~is_highlight(file_type, "Number") THEN st
    ELSE IF is_ascii_digit(c) /\ (st.prev_separator \/ st.prev_highlight = "Number")
    THEN [st EXCEPT !.highlight[st.i + 1] = "Number", !.prev_separator = FALSE]
    ELSE st

\* the number branch
number_branch(st, c, file_type) ==
    IF ~is_highlight(file_type, "Number") THEN st
    ELSE IF is_ascii_digit(c) /\ (st.prev_separator \/ st.prev_highlight = "Number")
    THEN [st EXCEPT !.highlight[st.i + 1] = "Number", !.prev_separator = FALSE]
    ELSE IF c = "." /\ st.prev_highlight = "Number"
    THEN [st EXCEPT !.highlight[st.i + 1] = "Number", !.prev_separator = FALSE]
    ELSE st

\* the string branch
string_branch(st, c, file_type) ==
    IF ~is_highlight(file_type, "String") THEN st
    ELSE IF st.in_string
    THEN [st EXCEPT !.highlight[st.i + 1] = "String",
                    !.in_string = ~(c = st.quote /\ st.prev_char # "\\"),
                    !.prev_separator = TRUE]
    ELSE IF c = "'" \/ c = "\""
    THEN [st EXCEPT !.in_string = TRUE, !.quote = c, !.highlight[st.i + 1] = "String"]
    ELSE st

\* the text at i is this marker
marker_at(render, i, marker) == SkipTake(render, i, Len(marker)) = marker

\* the single-line comment branch taken: tags to the line end, `return false`
singleline_comment(render, st) ==
    [st EXCEPT !.highlight = SetRange(st.highlight, st.i, Len(render), "Comment"),
               !.in_comment = FALSE,
               !.returned = TRUE]

\* the multi-line comment branch outside a comment, then the keyword branches
multiline_comment_open(render, st, c, file_type) ==
    IF marker_at(render, st.i, multiline_comment_start(file_type))
    THEN [st EXCEPT !.in_comment = TRUE,
                    !.highlight = SetRange(st.highlight, st.i,
                        st.i + Len(multiline_comment_start(file_type)),
                        "MultilineComment"),
                    !.i = st.i + Len(multiline_comment_start(file_type))]
    ELSE keyword_branch(render, st, c, file_type)

\* a faulty variant of multiline_comment_close that tags the closing marker
\* and stays inside the comment; C10 must tell it from multiline_comment_close
multiline_comment_close_stays_open(render, st, c, file_type) ==
    IF marker_at(render, st.i, multiline_comment_end(file_type))
    THEN [st EXCEPT !.prev_separator = TRUE,
                    !.highlight = SetRange(st.highlight, st.i,
                        st.i + Len(multiline_comment_end(file_type)),
                        "MultilineComment"),
                    !.i = st.i + Len(multiline_comment_end(file_type))]
    ELSE keyword_branch(render, st, c, file_type)

\* the multi-line comment branch inside a comment (st.highlight[i] is already
\* MultilineComment), then the keyword branches
multiline_comment_close(render, st, c, file_type) ==
    IF marker_at(render, st.i, multiline_comment_end(file_type))
    THEN [st EXCEPT !.in_comment = FALSE,
                    !.prev_separator = TRUE,
                    !.highlight = SetRange(st.highlight, st.i,
                        st.i + Len(multiline_comment_end(file_type)),
                        "MultilineComment"),
                    !.i = st.i + Len(multiline_comment_end(file_type))]
    ELSE keyword_branch(render, st, c, file_type)

\* the comment branches, the keyword branches and the end of the iteration; st
\* is the state after the number and string branches
comment_branch(render, st, c, file_type) ==
    IF /\ is_highlight(file_type, "Comment")
       /\ ~st.in_string /\ ~st.in_comment
       /\ marker_at(render, st.i, singleline_comment_start(file_type))
    THEN singleline_comment(render, st)
    ELSE IF ~is_highlight(file_type, "MultilineComment")
    THEN keyword_branch(render, st, c, file_type)
    ELSE IF ~st.in_comment
    THEN multiline_comment_open(render, st, c, file_type)
    ELSE multiline_comment_close(render,
             [st EXCEPT !.highlight[st.i + 1] = "MultilineComment"], c, file_type)

\* one iteration of 'char_loop on the character c = render[i]
char_loop_body(render, st, c, file_type) ==
    IF file_type = "None"
    THEN char_loop_tail([st EXCEPT !.highlight[st.i + 1] = "Normal"], c)
    ELSE comment_branch(render,
             string_branch(
                 number_branch([st EXCEPT !.highlight[st.i + 1] = "Normal"], c, file_type),
                 c, file_type),
             c, file_type)

\* 'char_loop of EditorLine::clear_highlight, and what the function leaves:
\* the tags and open_comment
RECURSIVE char_loop(_, _, _)
char_loop(render, file_type, st) ==
    IF st.returned \/ st.i >= Len(render)
    THEN [highlight |-> st.highlight, open_comment |-> st.in_comment]
    ELSE char_loop(render, file_type,
                   char_loop_body(render, st, render[st.i + 1], file_type))

\* EditorLine::clear_highlight(open_comment) on a line with this render text and
\* this (possibly stale) highlight vector: the new tags and the new open_comment
EditorLine_clear_highlight(render, highlight, file_type, open_comment) ==
    char_loop(render, file_type,
        [i |-> 0,
         highlight |-> Resize(highlight, Len(render)),
         prev_highlight |-> "Normal",
         prev_separator |-> TRUE,
         prev_char |-> NUL,
         in_string |-> FALSE,
         in_comment |-> open_comment,
         quote |-> NUL,
         returned |-> FALSE])

\* struct EditorLine (file_type is the buffer's, kept in the variable file_type)
EditorLine(raw, render, highlight, open_comment) ==
    [raw |-> raw, render |-> render, highlight |-> highlight,
     open_comment |-> open_comment]

\* the line el with the result r of EditorLine::clear_highlight stored
with_highlight(el, r) ==
    [el EXCEPT !.highlight = r.highlight, !.open_comment = r.open_comment]

\* EditorLine::clear_highlight applied to an EditorLine
line_clear_highlight(el, file_type, open_comment) ==
    with_highlight(el,
        EditorLine_clear_highlight(el.render, el.highlight, file_type, open_comment))

\* EditorLine::new
EditorLine_new(line, file_type) ==
    line_clear_highlight(EditorLine(line, convert_render(line), <<>>, FALSE),
                         file_type, FALSE)


\* ------------------------------------------------- buffer.rs: EditorBuffer
\* The editor is a record s with the fields of EditorScreen and of its
\* EditorBuffer: lines, dirty, file_type, cx, cy, rx, offset_x, offset_y, and
\* panicked (an index or slice out of range aborted the program).  Every
\* operation leaves a panicked editor as it is.

Panic(s) == [s EXCEPT !.panicked = TRUE]

\* self.lines.get(num) is Some
has_line(s, num) == num < Len(s.lines)

\* EditorBuffer::get_line, where has_line
get_line(s, num) == s.lines[num + 1].raw

\* the `for i in cy..self.lines.len()` loop of EditorBuffer::clear_highlight;
\* clear_highlight_store is one iteration with the recomputed line el
RECURSIVE clear_highlight_loop(_, _, _, _)
RECURSIVE clear_highlight_store(_, _, _, _)
clear_highlight_loop(ls, ft, i, open_comment) ==
    IF i >= Len(ls) THEN ls
    ELSE clear_highlight_store(ls, ft, i, line_clear_highlight(ls[i + 1], ft, open_comment))

clear_highlight_store(ls, ft, i, el) ==
    clear_highlight_loop([ls EXCEPT ![i + 1] = el], ft, i + 1, el.open_comment)

\* EditorBuffer::clear_highlight
clear_highlight(s, cy) ==
    IF s.panicked THEN s
    ELSE IF cy > Len(s.lines) THEN Panic(s)
    ELSE [s EXCEPT !.lines =
            clear_highlight_loop(s.lines, s.file_type, cy,
                IF cy = 0 THEN FALSE ELSE s.lines[cy].open_comment)]

\* EditorBuffer::insert_line
insert_line(s, cy, line) ==
    IF s.panicked THEN s
    ELSE IF cy > Len(s.lines) THEN Panic(s)
    ELSE [s EXCEPT !.lines = InsertAt(s.lines, cy, EditorLine_new(line, s.file_type)),
                   !.dirty = TRUE]

\* a faulty variant of set_raw: the render text is left as it was
set_raw_stale_render(el, raw) == [el EXCEPT !.raw = raw]

\* EditorLine::insert_char, remove_char, insert_str: the new raw text and its
\* render text; the tags stay as they were
set_raw(el, raw) == [el EXCEPT !.raw = raw, !.render = convert_render(raw)]

\* EditorBuffer::insert_char
buffer_insert_char(s, cx, cy, c) ==
    IF s.panicked \/ ~has_line(s, cy) THEN s
    ELSE IF cx > Len(get_line(s, cy)) THEN Panic(s)
    ELSE clear_highlight(
             [s EXCEPT !.lines[cy + 1] = set_raw(@, InsertAt(@.raw, cx, c)),
                       !.dirty = TRUE],
             cy)

\* a faulty variant of buffer_delete_char: the dirty flag is left as it was
buffer_delete_char_unmarked(s, cx, cy) ==
    IF s.panicked \/ ~has_line(s, cy) THEN s
    ELSE IF cx >= Len(get_line(s, cy)) THEN s
    ELSE clear_highlight(
             [s EXCEPT !.lines[cy + 1] = set_raw(@, RemoveAt(@.raw, cx))],
             cy)

\* EditorBuffer::delete_char
buffer_delete_char(s, cx, cy) ==
    IF s.panicked \/ ~has_line(s, cy) THEN s
    ELSE IF cx >= Len(get_line(s, cy)) THEN s
    ELSE clear_highlight(
             [s EXCEPT !.lines[cy + 1] = set_raw(@, RemoveAt(@.raw, cx)),
                       !.dirty = TRUE],
             cy)

\* EditorBuffer::delete_line
delete_line(s, cy) ==
    IF s.panicked THEN s
    ELSE IF cy >= Len(s.lines) THEN Panic(s)
    ELSE [s EXCEPT !.lines = RemoveAt(s.lines, cy), !.dirty = TRUE]

\* EditorBuffer::replace_line
replace_line(s, cy, new_line) ==
    IF s.panicked THEN s
    ELSE IF cy >= Len(s.lines) THEN Panic(s)
    ELSE [s EXCEPT !.lines[cy + 1] = EditorLine_new(new_line, s.file_type)]

\* EditorBuffer::append_string
append_string(s, cx, cy, message) ==
    IF s.panicked \/ ~has_line(s, cy) THEN s
    ELSE IF cx > Len(get_line(s, cy)) THEN Panic(s)
    ELSE clear_highlight(
             [s EXCEPT !.lines[cy + 1] =
                           set_raw(@, SubSeq(@.raw, 1, cx) \o message
                                      \o SubSeq(@.raw, cx + 1, Len(@.raw))),
                       !.dirty = TRUE],
             cy)

\* EditorBuffer::cx_to_rx
cx_to_rx(s, cx, cy) ==
    IF has_line(s, cy) THEN line_cx_to_rx(get_line(s, cy), cx) ELSE 0


\* ------------------------------------------------- screen.rs: EditorScreen
down(s) ==
    IF s.panicked THEN s
    ELSE IF Len(s.lines) # 0 /\ s.cy < Len(s.lines) THEN [s EXCEPT !.cy = s.cy + 1]
    ELSE s

up(s) ==
    IF s.panicked THEN s
    ELSE IF s.cy > 0 THEN [s EXCEPT !.cy = s.cy - 1]
    ELSE s

left(s) ==
    IF s.panicked THEN s
    ELSE IF s.cx > 0 THEN [s EXCEPT !.cx = s.cx - 1]
    ELSE IF s.cy > 0 /\ has_line(s, s.cy - 1)
    THEN [s EXCEPT !.cy = s.cy - 1, !.cx = Len(get_line(s, s.cy - 1))]
    ELSE s

right(s) ==
    IF s.panicked \/ ~has_line(s, s.cy) THEN s
    ELSE IF s.cx < Len(get_line(s, s.cy)) THEN [s EXCEPT !.cx = s.cx + 1]
    ELSE IF s.cx = Len(get_line(s, s.cy)) THEN [s EXCEPT !.cy = s.cy + 1, !.cx = 0]
    ELSE s

\* `for _ in 0..n { self.up() }` and `for _ in 0..n { self.down() }`
RECURSIVE up_times(_, _)
up_times(s, n) == IF n = 0 THEN s ELSE up_times(up(s), n - 1)

RECURSIVE down_times(_, _)
down_times(s, n) == IF n = 0 THEN s ELSE down_times(down(s), n - 1)

page_up(s) ==
    IF s.panicked THEN s
    ELSE up_times([s EXCEPT !.cy = s.offset_y], ScreenHeight)

page_down(s) ==
    IF s.panicked THEN s
    ELSE down_times([s EXCEPT !.cy = s.offset_y + ScreenHeight - 1], ScreenHeight)

home(s) == IF s.panicked THEN s ELSE [s EXCEPT !.cx = 0]

end(s) ==
    IF s.panicked THEN s
    ELSE IF s.cy < Len(s.lines) THEN [s EXCEPT !.cx = Len(get_line(s, s.cy))]
    ELSE s

\* a faulty variant of insert_new_line_split that puts the rest of the split
\* line before its first part; C5 must tell it from insert_new_line_split
insert_new_line_split_rest_first(s) ==
    IF s.cx = 0 THEN insert_line(s, s.cy, <<>>)
    ELSE IF ~has_line(s, s.cy) THEN s
    ELSE IF s.cx > Len(get_line(s, s.cy)) THEN Panic(s)
    ELSE insert_line(
             replace_line(s, s.cy, SubSeq(get_line(s, s.cy), 1, s.cx)),
             s.cy,
             SubSeq(get_line(s, s.cy), s.cx + 1, Len(get_line(s, s.cy))))

\* insert_new_line up to the call of clear_highlight: the line inserted or split
insert_new_line_split(s) ==
    IF s.cx = 0 THEN insert_line(s, s.cy, <<>>)
    ELSE IF ~has_line(s, s.cy) THEN s
    ELSE IF s.cx > Len(get_line(s, s.cy)) THEN Panic(s)
    ELSE insert_line(
             replace_line(s, s.cy, SubSeq(get_line(s, s.cy), 1, s.cx)),
             s.cy + 1,
             SubSeq(get_line(s, s.cy), s.cx + 1, Len(get_line(s, s.cy))))

\* `self.cx = 0; self.cy += 1`
insert_new_line_move(s) ==
    IF s.panicked THEN s ELSE [s EXCEPT !.cx = 0, !.cy = s.cy + 1]

insert_new_line(s) ==
    IF s.panicked THEN s
    ELSE insert_new_line_move(clear_highlight(insert_new_line_split(s), s.cy))

\* insert_char's first statement: a line appended when the cursor is parked on
\* the row after the last line
insert_char_append(s) ==
    IF s.cy = Len(s.lines)
    THEN [insert_line(s, Len(s.lines), <<>>) EXCEPT !.cx = 0]
    ELSE s

\* `self.buffer.insert_char(self.cx, self.cy, c); self.cx += 1`
insert_char_at_cursor(s, c) == buffer_insert_char(s, s.cx, s.cy, c)

cx_plus_one(s) == IF s.panicked THEN s ELSE [s EXCEPT !.cx = s.cx + 1]

insert_char(s, c) ==
    IF s.panicked THEN s
    ELSE cx_plus_one(insert_char_at_cursor(insert_char_append(s), c))

\* a faulty variant of delete_char_join that puts the line in front of the one
\* before it; C6 must tell it from delete_char_join
delete_char_join_in_front(s, prev, current) ==
    delete_line(
        append_string([s EXCEPT !.cx = Len(prev)], 0, s.cy - 1, current),
        s.cy)

\* delete_char at the start of a line that has a line before it: the line is
\* appended to the one before and removed
delete_char_join(s, prev, current) ==
    delete_line(
        append_string([s EXCEPT !.cx = Len(prev)], Len(prev), s.cy - 1, current),
        s.cy)

\* a faulty variant of cy_minus_one: the cursor stays on the row of the line
\* that was removed
cy_minus_one_skipped(s) == s

\* `self.cy -= 1`
cy_minus_one(s) == IF s.panicked THEN s ELSE [s EXCEPT !.cy = s.cy - 1]

cx_minus_one(s) == IF s.panicked THEN s ELSE [s EXCEPT !.cx = s.cx - 1]

delete_char(s) ==
    IF s.panicked THEN s
    ELSE IF s.cx = 0 /\ s.cy = 0 THEN s
    ELSE IF s.cx = 0
    THEN IF has_line(s, s.cy - 1) /\ has_line(s, s.cy)
         THEN cy_minus_one(delete_char_join(s, get_line(s, s.cy - 1), get_line(s, s.cy)))
         ELSE s
    ELSE cx_minus_one(buffer_delete_char(s, s.cx - 1, s.cy))

\* adjust: the clamp of cx and the render column
adjust_cx(s) ==
    IF has_line(s, s.cy) /\ Len(get_line(s, s.cy)) < s.cx
    THEN [s EXCEPT !.rx = 0, !.cx = Len(get_line(s, s.cy))]
    ELSE [s EXCEPT !.rx = 0]

adjust_rx(s) ==
    IF s.cy < Len(s.lines) THEN [s EXCEPT !.rx = cx_to_rx(s, s.cx, s.cy)] ELSE s

\* adjust: the two tests on offset_x, then the two tests on offset_y
adjust_offset_x1(s) == IF s.rx < s.offset_x THEN [s EXCEPT !.offset_x = s.rx] ELSE s

\* a faulty variant of adjust_offset_x2 that stops one column short; C1 must
\* tell it from adjust_offset_x2
adjust_offset_x2_one_short(s) ==
    IF s.rx >= s.offset_x + ScreenWidth
    THEN [s EXCEPT !.offset_x = s.rx - ScreenWidth] ELSE s

adjust_offset_x2(s) ==
    IF s.rx >= s.offset_x + ScreenWidth
    THEN [s EXCEPT !.offset_x = s.rx - ScreenWidth + 1] ELSE s

adjust_offset_y1(s) == IF s.cy < s.offset_y THEN [s EXCEPT !.offset_y = s.cy] ELSE s

\* a faulty variant of adjust_offset_y2 that scrolls the cursor row to the top
\* of the viewport; C9 must tell it from adjust_offset_y2
adjust_offset_y2_to_top(s) ==
    IF s.cy >= s.offset_y + ScreenHeight
    THEN [s EXCEPT !.offset_y = s.cy] ELSE s

adjust_offset_y2(s) ==
    IF s.cy >= s.offset_y + ScreenHeight
    THEN [s EXCEPT !.offset_y = s.cy - ScreenHeight + 1] ELSE s

adjust(s) ==
    IF s.panicked THEN s
    ELSE adjust_offset_y2(adjust_offset_y1(
             adjust_offset_x2(adjust_offset_x1(adjust_rx(adjust_cx(s))))))

\* ------------------------------------------------- pane.rs: dispatch
\* Pane::post_process (the status bar texts are not modelled)
post_process(s) == adjust(s)

\* the characters Command::Input is given
Chars == {"\t", "/", "*"}


\* EditorBuffer::load_file, for a readable file with these lines whose name
\* selects this file type
RECURSIVE load_file_lines(_, _, _)
load_file_lines(text, ft, k) ==
    IF k > Len(text) THEN <<>>
    ELSE <<EditorLine_new(text[k], ft)>> \o load_file_lines(text, ft, k + 1)

load_file(s, text, ft) ==
    clear_highlight(
        [s EXCEPT !.file_type = ft, !.lines = load_file_lines(text, ft, 1),
                  !.dirty = FALSE],
        0)

\* ------------------------------------------------------------------ state
VARIABLES
    lines,       \* EditorBuffer.lines: the EditorLines
    file_type,   \* EditorBuffer.file_type
    dirty,       \* EditorBuffer.dirty
    cx, cy,      \* EditorScreen cursor: column in the raw line, row
    rx,          \* EditorScreen.rx: render column
    offset_x,    \* EditorScreen.offset_x
    offset_y,    \* EditorScreen.offset_y
    panicked,    \* the program aborted on an index out of range
    lastCmd,     \* kind of the last command processed ("None" before the first)
    preLen,      \* number of lines before the last command
    file_text,   \* the lines of the file named on the command line, or those
                 \* that save_file has written
    mode,        \* "edit": process_command reads keys; "search": the prompt of
                 \* process_find_command reads them
    query,       \* the prompt's input
    direction,   \* process_find_command's direction
    last_match,  \* process_find_command's last_match: what the last find or
                 \* rfind returned
    saved,       \* cursor and offsets kept by process_find_command
    result,      \* what the last process_command returned: "Ok" or "Err"
    key_buf,     \* the bytes the running call of read_editor_key has consumed
    key_out,     \* what that call has returned, or that it is still reading
    zero_reads,  \* the zero-byte reads of that call
    last_read,   \* what the reader's last read returned
    quit_times,  \* Pane.quit_times: the Exit commands still to be warned about
    filepath     \* EditorBuffer.filepath: NoPath or SomePath(path)

vars == <<lines, file_type, dirty, cx, cy, rx, offset_x, offset_y, panicked,
          lastCmd, preLen, file_text, mode, query, direction, last_match, saved,
          result, key_buf, key_out, zero_reads, last_read, quit_times, filepath>>

\* the state of the key decoder
key_vars == <<key_buf, key_out, zero_reads, last_read>>

\* the state of a search
search_vars == <<mode, query, direction, last_match, saved>>

\* what a call of read_editor_key has returned; Reading while it has not
Reading == [status |-> "Reading", key |-> "None", c |-> 0, err |-> "None"]
Key(name) == [status |-> "Ok", key |-> name, c |-> 0, err |-> "None"]
KeyOf(name, c) == [status |-> "Ok", key |-> name, c |-> c, err |-> "None"]
Failed(e) == [status |-> "Err", key |-> "None", c |-> 0, err |-> e]

\* what Read::read has returned
ReadOf(kind, val) == [kind |-> kind, val |-> val]

\* a call of read_editor_key begun, nothing read
InitKey ==
    /\ key_buf = <<>> /\ key_out = Reading /\ zero_reads = 0
    /\ last_read = ReadOf("None", 0)

\* the editor as a record
Screen ==
    [lines |-> lines, file_type |-> file_type, dirty |-> dirty,
     cx |-> cx, cy |-> cy, rx |-> rx,
     offset_x |-> offset_x, offset_y |-> offset_y, panicked |-> panicked]

\* the raw texts of the lines
Raws(ls) == [k \in 1..Len(ls) |-> ls[k].raw]

RECURSIVE TotalChars(_)
TotalChars(ls) == IF ls = <<>> THEN 0 ELSE Len(ls[1].raw) + TotalChars(Tail(ls))

\* EditorScreen::new, with set_size done
InitScreen ==
    /\ lines = <<>> /\ dirty = FALSE
    /\ cx = 0 /\ cy = 0 /\ rx = 0 /\ offset_x = 0 /\ offset_y = 0
    /\ panicked = FALSE
    /\ lastCmd = "None" /\ preLen = 0
    /\ mode = "edit" /\ query = <<>> /\ direction = "Down" /\ last_match = TRUE
    /\ saved = [cx |-> 0, cy |-> 0, offset_x |-> 0, offset_y |-> 0]
    /\ result = "Ok" /\ quit_times = QUIT_TIMES
    /\ InitKey

\* the editor started on an empty file with a C extension
Init ==
    /\ InitScreen
    /\ file_type = "C" /\ filepath = SomePath(CPath)
    /\ file_text = <<>>

\* Pane::process_command for a command of this kind whose match arm leaves the
\* editor as body: post_process, then the result stored
Process(kind, body) ==
    /\ ~panicked /\ result = "Ok"
    /\ mode = "edit"
    /\ \E t \in {post_process(body)} :
           /\ lines' = t.lines /\ dirty' = t.dirty
           /\ cx' = t.cx /\ cy' = t.cy /\ rx' = t.rx
           /\ offset_x' = t.offset_x /\ offset_y' = t.offset_y
           /\ panicked' = t.panicked
    /\ lastCmd' = kind
    /\ preLen' = Len(lines)
    /\ result' = "Ok" /\ quit_times' = QUIT_TIMES
    /\ UNCHANGED <<file_type, file_text, filepath>>
    /\ UNCHANGED <<search_vars, key_vars>>

ArrowDown == Process("Cursor", down(Screen))
ArrowUp == Process("Cursor", up(Screen))
ArrowLeft == Process("Cursor", left(Screen))
ArrowRight == Process("Cursor", right(Screen))
PageUp == Process("Cursor", page_up(Screen))
PageDown == Process("Cursor", page_down(Screen))
Home == Process("Cursor", home(Screen))
End == Process("Cursor", end(Screen))
Escape == Process("Cursor", Screen)

\* Command::Enter, while the buffer may grow
Enter ==
    /\ (cx = 0 \/ cy < Len(lines)) => Len(lines) < MaxLines
    /\ Process("Enter", insert_new_line(Screen))

Delete == Process("Delete", delete_char(right(Screen)))

Backspace == Process("Backspace", delete_char(Screen))

\* Command::Input(c), while the buffer may grow
Input ==
    /\ IF cy <= Len(lines) THEN TotalChars(lines) < MaxChars ELSE cx < MaxChars
    /\ cy = Len(lines) => Len(lines) < MaxLines
    /\ \E c \in Chars : Process("Input", insert_char(Screen, c))

Next ==
    \/ ArrowDown \/ ArrowUp \/ ArrowLeft \/ ArrowRight
    \/ PageUp \/ PageDown \/ Home \/ End \/ Escape
    \/ Enter \/ Delete \/ Backspace \/ Input

Spec == Init /\ [][Next]_vars

\* ------------------------------------------------- loading a file
\* the characters and lines of the files loaded
ScanChars == {"/", "*", "a"}
ScanLines == UNION {[1..n -> ScanChars] : n \in 0..MaxScanLen}

\* the files of at most this many lines and characters
RECURSIVE ScanTextsOf(_, _)
ScanTextsOf(rows, chars) ==
    IF rows = 0 THEN {<<>>}
    ELSE {<<>>} \cup
         UNION {{<<line>> \o rest : rest \in ScanTextsOf(rows - 1, chars - Len(line))} :
                   line \in {l \in ScanLines : Len(l) <= chars}}

ScanTexts == ScanTextsOf(MaxScanRows, MaxScanChars)

\* the editor before main loads the file: EditorBuffer::new has no file type
InitHl ==
    /\ InitScreen
    /\ file_type = "None" /\ filepath = NoPath
    /\ file_text \in ScanTexts

\* main's load of the file, a C source file
LoadFile ==
    /\ file_type = "None"
    /\ \E t \in {load_file(Screen, file_text, select_file_type(CPath))} :
           /\ lines' = t.lines /\ dirty' = t.dirty /\ file_type' = t.file_type
           /\ panicked' = t.panicked
    /\ filepath' = SomePath(CPath)
    /\ UNCHANGED <<cx, cy, rx, offset_x, offset_y, lastCmd, preLen, file_text>>
    /\ UNCHANGED <<search_vars, result, quit_times, key_vars>>

NextHl == LoadFile

SpecHl == InitHl /\ [][NextHl]_vars


\* ------------------------------------------------------------ properties
\* a command has been processed and the program has not aborted
AfterCommand == lastCmd # "None" /\ ~panicked

\* the cursor is on a line of the buffer
OnLine == cy < Len(lines)

\* the length of the line the cursor is on; the row past the last line counts
\* as a line of length 0
CursorLineLength == IF OnLine THEN Len(lines[cy + 1].raw) ELSE 0

\* C1: over a non-empty buffer, after every command (each ends with adjust)
\* the render column and the row are inside the viewport:
\* offset_x <= rx < offset_x + width and offset_y <= cy < offset_y + height.
C1_ViewportHoldsCursor ==
    (AfterCommand /\ Len(lines) > 0) =>
        /\ offset_x <= rx /\ rx < offset_x + ScreenWidth
        /\ offset_y <= cy /\ cy < offset_y + ScreenHeight

\* a state of C1: a command has left a non-empty buffer scrolled both ways
C1_Witness ==
    /\ AfterCommand /\ Len(lines) > 0
    /\ offset_x > 0 /\ offset_y > 0

\* the render length of the first n characters of a raw line: the index in
\* convert_render(raw) at which the rendering of character n starts
RenderStart(raw, n) == Len(convert_render(SubSeq(raw, 1, n)))

\* C2: for every line of tabs and ordinary characters and every N up to its
\* length, cx_to_rx(line, N) is the index in convert_render(line) at which the
\* rendering of the N-th character starts, and the render length when N is the
\* line's length.
C2_CxToRxIsRenderStart ==
    \A k \in 1..Len(lines) :
        /\ \A n \in 0..Len(lines[k].raw) :
               line_cx_to_rx(lines[k].raw, n) = RenderStart(lines[k].raw, n)
        /\ line_cx_to_rx(lines[k].raw, Len(lines[k].raw)) = Len(lines[k].render)

\* a state where C2 fails: a line of two tabs, whose render text has 15
\* characters while cx_to_rx puts its end at column 16
C2_Witness ==
    \E k \in 1..Len(lines) :
        /\ lines[k].raw = <<"\t", "\t">>
        /\ line_cx_to_rx(lines[k].raw, 2) = 16
        /\ Len(lines[k].render) = 15

\* the next multiple of TAB_STOP strictly above n
NextTabStop(n) == ((n \div TAB_STOP) + 1) * TAB_STOP

\* C3: convert_render turns every tab into spaces up to the next multiple of
\* TAB_STOP strictly above the render length before the tab, and copies every
\* other character unchanged.
C3_TabsReachNextTabStop ==
    \A k \in 1..Len(lines) :
        \A n \in 1..Len(lines[k].raw) :
            IF lines[k].raw[n] = "\t"
            THEN /\ RenderStart(lines[k].raw, n) =
                        NextTabStop(RenderStart(lines[k].raw, n - 1))
                 /\ \A j \in (RenderStart(lines[k].raw, n - 1) + 1)
                                ..RenderStart(lines[k].raw, n) :
                        convert_render(lines[k].raw)[j] = " "
            ELSE /\ RenderStart(lines[k].raw, n) = RenderStart(lines[k].raw, n - 1) + 1
                 /\ convert_render(lines[k].raw)[RenderStart(lines[k].raw, n)] =
                        lines[k].raw[n]

\* a state where C3 fails: in a line of two tabs the first tab ends at render
\* length 8 and the second at 15
C3_Witness ==
    \E k \in 1..Len(lines) :
        /\ lines[k].raw = <<"\t", "\t">>
        /\ RenderStart(lines[k].raw, 1) = 8
        /\ RenderStart(lines[k].raw, 2) = 15

\* the tags and the flag stored on row k (1-based) are what the highlighter
\* computes from the row's render text and the stored flag of the row before
RowHighlightCurrent(ls, ft, k) ==
    [highlight |-> ls[k].highlight, open_comment |-> ls[k].open_comment] =
        EditorLine_clear_highlight(ls[k].render, ls[k].highlight, ft,
            IF k = 1 THEN FALSE ELSE ls[k - 1].open_comment)

\* C4: after every editing command (character input, Enter, Backspace, Delete)
\* every line's stored tags and open_comment flag are what the highlighter
\* computes from its render text with the stored open_comment of the line
\* before it (false for row 0).
C4_HighlightCurrentAfterEdit ==
    (AfterCommand /\ lastCmd \in {"Input", "Enter", "Backspace", "Delete"}) =>
        \A k \in 1..Len(lines) : RowHighlightCurrent(lines, file_type, k)

\* a state where C4 fails: Backspace has joined `/*` onto `/`; the empty line
\* after them keeps the open_comment it got from the removed line
C4_Witness ==
    /\ AfterCommand /\ lastCmd = "Backspace"
    /\ Raws(lines) = << <<"/", "/", "*">>, <<>> >>
    /\ ~lines[1].open_comment /\ lines[2].open_comment

\* C5: Enter at (cx, cy) with cy < line count: with cx = 0 an empty line is
\* inserted before row cy; with 0 < cx <= length of line cy, line cy becomes
\* its first cx characters and a new line cy+1 holds the rest; the other lines
\* keep content and order, the line count grows by one, the cursor ends at
\* (0, cy+1).
C5_EnterSplitsLine ==
    [][(lastCmd' = "Enter" /\ ~panicked' /\ OnLine) =>
          /\ Len(lines') = Len(lines) + 1
          /\ Raws(lines') =
                 SubSeq(Raws(lines), 1, cy)
                 \o (IF cx = 0
                     THEN << <<>>, lines[cy + 1].raw >>
                     ELSE << SubSeq(lines[cy + 1].raw, 1, cx),
                             SubSeq(lines[cy + 1].raw, cx + 1, Len(lines[cy + 1].raw)) >>)
                 \o SubSeq(Raws(lines), cy + 2, Len(lines))
          /\ cx' = 0
          /\ cy' = cy + 1]_vars

\* a state of C5: Enter has split a line between two of its characters
C5_Witness ==
    /\ AfterCommand /\ lastCmd = "Enter"
    /\ Len(lines) = preLen + 1
    /\ cx = 0 /\ cy > 0 /\ OnLine
    /\ lines[cy].raw # <<>> /\ lines[cy + 1].raw # <<>>

\* C6: Backspace at (cx, cy) with cy < line count: at (0,0) nothing changes; at
\* column 0 of a row cy > 0 line cy is appended to line cy-1 and removed, and
\* the cursor becomes (former length of line cy-1, cy-1); at cx > 0 the
\* character at cx-1 of line cy is removed and cx decreases by one; the other
\* lines are unchanged.
C6_BackspaceDeletesOrJoins ==
    [][(lastCmd' = "Backspace" /\ ~panicked' /\ OnLine) =>
          IF cx = 0 /\ cy = 0
          THEN Raws(lines') = Raws(lines) /\ cx' = 0 /\ cy' = 0
          ELSE IF cx = 0
          THEN /\ Raws(lines') =
                      SubSeq(Raws(lines), 1, cy - 1)
                      \o << lines[cy].raw \o lines[cy + 1].raw >>
                      \o SubSeq(Raws(lines), cy + 2, Len(lines))
               /\ cx' = Len(lines[cy].raw)
               /\ cy' = cy - 1
          ELSE /\ Raws(lines') =
                      SubSeq(Raws(lines), 1, cy)
                      \o << SubSeq(lines[cy + 1].raw, 1, cx - 1)
                            \o SubSeq(lines[cy + 1].raw, cx + 1, Len(lines[cy + 1].raw)) >>
                      \o SubSeq(Raws(lines), cy + 2, Len(lines))
               /\ cx' = cx - 1
               /\ cy' = cy]_vars

\* a state of C6: Backspace has joined a non-empty line onto a non-empty line
C6_Witness ==
    /\ AfterCommand /\ lastCmd = "Backspace"
    /\ Len(lines) + 1 = preLen
    /\ OnLine /\ 0 < cx /\ cx < Len(lines[cy + 1].raw)

\* C7: Input of a character c at (cx, cy): when cy is the line count an empty
\* line is appended and cx reset to 0 first; then c is inserted at column cx of
\* line cy, cx advances by one, dirty is set and the line is re-highlighted;
\* the line grows by one character and no other line's content changes.
C7_InputInsertsChar ==
    [][(lastCmd' = "Input" /\ ~panicked') =>
          /\ cy < Len(lines')
          /\ \E c \in Chars :
                 Raws(lines') =
                     IF cy >= Len(lines)
                     THEN Raws(lines) \o << <<c>> >>
                     ELSE SubSeq(Raws(lines), 1, cy)
                          \o << SubSeq(lines[cy + 1].raw, 1, cx) \o <<c>>
                                \o SubSeq(lines[cy + 1].raw, cx + 1,
                                          Len(lines[cy + 1].raw)) >>
                          \o SubSeq(Raws(lines), cy + 2, Len(lines))
          /\ cx' = (IF cy >= Len(lines) THEN 0 ELSE cx) + 1
          /\ cy' = cy
          /\ dirty'
          /\ RowHighlightCurrent(lines', file_type', cy + 1)]_vars

\* a state where C7 fails: a character typed with the cursor below the row
\* past the last line is not inserted, yet cx has advanced
C7_Witness ==
    /\ AfterCommand /\ lastCmd = "Input"
    /\ lines = <<>> /\ cy = 1 /\ cx = 1 /\ ~dirty

\* C8: after every command, cx does not exceed the length of the line at cy,
\* where the row past the last line counts as a line of length 0.
C8_CxWithinLine == AfterCommand => cx <= CursorLineLength

\* a state where C8 fails: a cursor command has parked the cursor on the row
\* past the only line with cx still 1
C8_Witness ==
    /\ AfterCommand /\ lastCmd = "Cursor"
    /\ Len(lines) = 1 /\ preLen = 1 /\ cy = 1 /\ cx = 1

\* C9: adjust scrolls by the minimum: offset_x stays when rx is inside
\* [offset_x, offset_x + width), becomes rx when rx is below it and
\* rx - width + 1 when rx is beyond it; offset_y likewise against cy and
\* height; and rx is computed from a cx already clamped to the line length.
C9_AdjustScrollsMinimally ==
    [][(lastCmd' # "None" /\ ~panicked') =>
          /\ offset_x' = (IF rx' < offset_x THEN rx'
                          ELSE IF rx' >= offset_x + ScreenWidth
                               THEN rx' - ScreenWidth + 1
                               ELSE offset_x)
          /\ offset_y' = (IF cy' < offset_y THEN cy'
                          ELSE IF cy' >= offset_y + ScreenHeight
                               THEN cy' - ScreenHeight + 1
                               ELSE offset_y)
          /\ IF cy' < Len(lines')
             THEN /\ cx' <= Len(lines'[cy' + 1].raw)
                  /\ rx' = line_cx_to_rx(lines'[cy' + 1].raw, cx')
             ELSE rx' = 0]_vars

\* a state of C9: a command has scrolled the viewport right by the least
\* amount that shows the render column, and down to show the row
C9_Witness ==
    /\ AfterCommand
    /\ offset_x > 0 /\ rx = offset_x + ScreenWidth - 1
    /\ offset_y > 0 /\ cy = offset_y + ScreenHeight - 1


\* the text has this marker at 0-based position p
Starts(text, p, marker) ==
    /\ p + Len(marker) <= Len(text)
    /\ \A j \in 1..Len(marker) : text[p + j] = marker[j]

\* the open_comment flag row k (1-based) is highlighted with
CarryIn(k) == IF k = 1 THEN FALSE ELSE lines[k - 1].open_comment

\* the first comment marker of the text is an opening marker, and no closing
\* marker follows it
OpensUnclosed(text) ==
    \E p \in 0..Len(text) :
        /\ Starts(text, p, multiline_comment_start("C"))
        /\ \A q \in 0..(p - 1) :
               /\ ~Starts(text, q, multiline_comment_start("C"))
               /\ ~Starts(text, q, singleline_comment_start("C"))
        /\ \A q \in (p + 2)..Len(text) : ~Starts(text, q, multiline_comment_end("C"))

HasClose(text) == \E p \in 0..Len(text) : Starts(text, p, multiline_comment_end("C"))

\* the position of the first closing marker
FirstClose(text) ==
    CHOOSE p \in 0..Len(text) :
        /\ Starts(text, p, multiline_comment_end("C"))
        /\ \A q \in 0..(p - 1) : ~Starts(text, q, multiline_comment_end("C"))

\* an opening marker starts at one of the positions from..to
OpensWithin(text, from, to) ==
    \E q \in from..to : Starts(text, q, multiline_comment_start("C"))

\* the parts of C10 about a line that opens a comment and about the lines
\* inside the comment
CommentCarried(k) ==
    /\ (~CarryIn(k) /\ OpensUnclosed(lines[k].render)) => lines[k].open_comment
    /\ (CarryIn(k) /\ ~HasClose(lines[k].render)) =>
           /\ \A j \in 1..Len(lines[k].render) :
                  lines[k].highlight[j] = "MultilineComment"
           /\ lines[k].open_comment

\* the characters of row k up to and including the first closing marker are
\* tagged MultilineComment
ClosingMarkerTagged(k) ==
    \A j \in 1..(FirstClose(lines[k].render) + 2) :
        lines[k].highlight[j] = "MultilineComment"

\* C10, for file type C: a line that opens a multi-line comment without
\* closing it ends with open_comment true; a following line without a closing
\* marker is tagged MultilineComment throughout and keeps open_comment true; on
\* the line with the closing marker the characters up to and including the
\* first closing marker are MultilineComment, the characters after it up to
\* the next opening marker are not, and open_comment is false when no opening
\* marker follows the closing marker.
C10_CommentCarry ==
    file_type = "C" =>
        \A k \in 1..Len(lines) :
            /\ CommentCarried(k)
            /\ (CarryIn(k) /\ HasClose(lines[k].render)) =>
                   /\ ClosingMarkerTagged(k)
                   /\ \A q \in (FirstClose(lines[k].render) + 2)
                                  ..(Len(lines[k].render) - 1) :
                          ~OpensWithin(lines[k].render,
                                       FirstClose(lines[k].render) + 2, q)
                              => lines[k].highlight[q + 1] # "MultilineComment"
                   /\ ~OpensWithin(lines[k].render, FirstClose(lines[k].render) + 2,
                                   Len(lines[k].render))
                          => ~lines[k].open_comment

\* C10 as the specification words it: on the line with the closing marker all
\* the rest is outside a comment and open_comment is false
C10_CommentCarryAsWorded ==
    file_type = "C" =>
        \A k \in 1..Len(lines) :
            /\ CommentCarried(k)
            /\ (CarryIn(k) /\ HasClose(lines[k].render)) =>
                   /\ ClosingMarkerTagged(k)
                   /\ \A q \in (FirstClose(lines[k].render) + 2)
                                  ..(Len(lines[k].render) - 1) :
                          lines[k].highlight[q + 1] # "MultilineComment"
                   /\ ~lines[k].open_comment

\* a state of C10: the loaded file is a comment opened on the first line,
\* carried over the second and closed on the third, with text after it
C10_Witness ==
    /\ file_type = "C"
    /\ Raws(lines) = << <<"/", "*">>, <<"a">>, <<"*", "/", "a">> >>
    /\ lines[1].open_comment /\ lines[2].open_comment /\ ~lines[3].open_comment
    /\ lines[2].highlight = <<"MultilineComment">>
    /\ lines[3].highlight = <<"MultilineComment", "MultilineComment", "Normal">>


\* ------------------------------------------------- loading a line of tokens
\* the pieces the one-line files of SpecTok are made of: a keyword of each
\* list, an identifier character, a separator, a quote, a digit and a point
Tokens ==
    {<<"i", "f">>, <<"i", "n", "t">>, <<"x">>, <<" ">>, <<"'">>, <<"1">>, <<".">>}

RECURSIVE Flatten(_)
Flatten(ts) == IF ts = <<>> THEN <<>> ELSE Head(ts) \o Flatten(Tail(ts))

\* the one-line files of at most MaxTokens tokens
TokTexts == {<<Flatten(ts)>> : ts \in UNION {[1..n -> Tokens] : n \in 0..MaxTokens}}

InitTok ==
    /\ InitScreen
    /\ file_type = "None" /\ filepath = NoPath
    /\ file_text \in TokTexts

NextTok == LoadFile

SpecTok == InitTok /\ [][NextTok]_vars

\* the keywords of file type C, and those of the first list
Keywords1 == {keyword1("C")[n] : n \in 1..Len(keyword1("C"))}
Keywords == Keywords1 \cup {keyword2("C")[n] : n \in 1..Len(keyword2("C"))}

\* some character of the n characters of el from 0-based position p on has a
\* keyword tag
KeywordTagged(el, p, n) ==
    \E j \in (p + 1)..(p + n) : el.highlight[j] \in {"Keyword1", "Keyword2"}

\* the text has no character before position p, or a separator
SeparatorBefore(text, p) == p = 0 \/ is_separator(text[p])

\* the text ends at position p, or has a separator there
SeparatorAt(text, p) == p = Len(text) \/ is_separator(text[p + 1])

\* C11: an occurrence of a keyword that is immediately followed or immediately
\* preceded by a character that is no separator is never tagged Keyword1 or
\* Keyword2.
C11_EmbeddedKeywordNotTagged ==
    file_type = "C" =>
        \A r \in 1..Len(lines) : \A k \in Keywords : \A p \in 0..Len(lines[r].render) :
            (/\ Starts(lines[r].render, p, k)
             /\ \/ ~SeparatorBefore(lines[r].render, p)
                \/ ~SeparatorAt(lines[r].render, p + Len(k)))
                => ~KeywordTagged(lines[r], p, Len(k))

\* a state where C11 fails: in the line `ifx ` the characters `if` are Keyword1
C11_Witness ==
    /\ file_type = "C"
    /\ Raws(lines) = << <<"i", "f", "x", " ">> >>
    /\ lines[1].highlight = <<"Keyword1", "Keyword1", "Normal", "Normal">>

\* the line has no quote character
NoQuote(text) == \A j \in 1..Len(text) : text[j] # "'"

\* C12: outside strings and comments, every occurrence of a keyword between
\* separators (or the line's start and end) is tagged Keyword1 or Keyword2, by
\* its list, over exactly its span.
C12_DelimitedKeywordTagged ==
    file_type = "C" =>
        \A r \in 1..Len(lines) : \A k \in Keywords : \A p \in 0..Len(lines[r].render) :
            (/\ NoQuote(lines[r].render)
             /\ Starts(lines[r].render, p, k)
             /\ SeparatorBefore(lines[r].render, p)
             /\ SeparatorAt(lines[r].render, p + Len(k)))
                => /\ \A j \in (p + 1)..(p + Len(k)) :
                          lines[r].highlight[j] =
                              IF k \in Keywords1 THEN "Keyword1" ELSE "Keyword2"
                   /\ p > 0 => ~KeywordTagged(lines[r], p - 1, 1)
                   /\ p + Len(k) < Len(lines[r].render)
                          => ~KeywordTagged(lines[r], p + Len(k), 1)

\* a state where C12 fails: in the line `if x` the keyword is left Normal
C12_Witness ==
    /\ file_type = "C"
    /\ Raws(lines) = << <<"i", "f", " ", "x">> >>
    /\ lines[1].highlight = <<"Normal", "Normal", "Normal", "Normal">>

\* the number of quote characters among the first n characters
RECURSIVE QuotesBefore(_, _)
QuotesBefore(text, n) ==
    IF n = 0 THEN 0
    ELSE QuotesBefore(text, n - 1) + (IF text[n] = "'" THEN 1 ELSE 0)

\* character j (1-based) of a line of one kind of quote and no backslash is in
\* a string region: it is a quote, or an odd number of quotes precede it
InString(text, j) == text[j] = "'" \/ QuotesBefore(text, j - 1) % 2 = 1

\* C13: on a line that does not start inside a comment, every character from
\* an opening quote through the closing quote (or the line end) is tagged
\* String, and so none of them Keyword1, Keyword2, Number, Comment or
\* MultilineComment.
C13_StringRegionTagged ==
    file_type = "C" =>
        \A r \in 1..Len(lines) : \A j \in 1..Len(lines[r].render) :
            InString(lines[r].render, j) => lines[r].highlight[j] = "String"

\* a state where C13 fails: in the line `'if' ` the quoted `if` is Keyword1
C13_Witness ==
    /\ file_type = "C"
    /\ Raws(lines) = << <<"'", "i", "f", "'", " ">> >>
    /\ lines[1].highlight = <<"String", "Keyword1", "Keyword1", "String", "Normal">>

\* the line is made of digits, points, identifier characters and blanks only
PlainNumbers(text) == \A j \in 1..Len(text) : text[j] \in {"1", ".", "x", " "}

\* C14, as the code has it: on a line without keywords, strings and comments a
\* character is tagged Number exactly when it is a digit after the line start,
\* a separator or a Number character, or a point after a Number character; a
\* Number may hold any number of points.
C14_NumberRule ==
    file_type = "C" =>
        \A r \in 1..Len(lines) :
            PlainNumbers(lines[r].render) =>
                \A j \in 1..Len(lines[r].render) :
                    lines[r].highlight[j] = "Number" <=>
                        \/ /\ is_ascii_digit(lines[r].render[j])
                           /\ \/ SeparatorBefore(lines[r].render, j - 1)
                              \/ lines[r].highlight[j - 1] = "Number"
                        \/ /\ lines[r].render[j] = "."
                           /\ j > 1
                           /\ lines[r].highlight[j - 1] = "Number"

\* C14: a run of Number characters holds at most one point.
C14_OnePointPerNumber ==
    file_type = "C" =>
        \A r \in 1..Len(lines) :
            \A p, q \in 1..Len(lines[r].render) :
                (/\ p < q
                 /\ lines[r].render[p] = "." /\ lines[r].render[q] = "."
                 /\ \A j \in p..(q - 1) : lines[r].highlight[j] = "Number")
                    => lines[r].highlight[q] # "Number"

\* a state of C14: the line `1.1.1` is tagged Number throughout
C14_Witness ==
    /\ file_type = "C"
    /\ Raws(lines) = << <<"1", ".", "1", ".", "1">> >>
    /\ \A j \in 1..5 : lines[1].highlight[j] = "Number"


\* ------------------------------------------------- screen.rs: find and rfind
\* Option::None of str::find and str::rfind
NotFound == -1

\* the byte offsets at which q occurs in text
Occurrences(text, q) ==
    {j \in 0..(Len(text) - Len(q)) : SkipTake(text, j, Len(q)) = q}

\* the least and the greatest element of a non-empty set of numbers
Least(S) == CHOOSE j \in S : \A k \in S : j <= k
Greatest(S) == CHOOSE j \in S : \A k \in S : k <= j

FirstOf(S) == IF S = {} THEN NotFound ELSE Least(S)
LastOf(S) == IF S = {} THEN NotFound ELSE Greatest(S)

\* a faulty str::find that returns the last occurrence
str_find_last(text, q) == LastOf(Occurrences(text, q))

\* a faulty str::rfind that returns the first occurrence
str_rfind_first(text, q) == FirstOf(Occurrences(text, q))

\* str::find and str::rfind
str_find(text, q) == FirstOf(Occurrences(text, q))

str_rfind(text, q) == LastOf(Occurrences(text, q))

\* what find and rfind leave: the editor and the value returned
Returned(s, ret) == [screen |-> s, ret |-> ret]

\* EditorScreen::find: the loop from row i on; find_row is one iteration with
\* `begin`, find_hit the test of what str::find returned
RECURSIVE find_loop(_, _, _)
RECURSIVE find_row(_, _, _, _)
RECURSIVE find_hit(_, _, _, _, _)
find_loop(s, q, i) ==
    IF i >= Len(s.lines) THEN Returned(s, FALSE)
    ELSE find_row(s, q, i, IF i = s.cy THEN s.cx ELSE 0)

find_row(s, q, i, begin) ==
    IF begin > Len(get_line(s, i)) THEN Returned(Panic(s), FALSE)
    ELSE find_hit(s, q, i, begin,
             str_find(SkipTake(get_line(s, i), begin, Len(get_line(s, i)) - begin), q))

find_hit(s, q, i, begin, j) ==
    IF j # NotFound THEN Returned([s EXCEPT !.cx = begin + j, !.cy = i], TRUE)
    ELSE find_loop(s, q, i + 1)

find(s, q) == IF s.panicked THEN Returned(s, FALSE) ELSE find_loop(s, q, s.cy)

\* a faulty str::rfind that accepts an occurrence starting inside the window
\* and running past its end
rfind_window_overrun(line, stop, q) ==
    LastOf({j \in Occurrences(line, q) : j <= stop})

\* `line[0..end].rfind(query)`, where end <= line.len()
rfind_window(line, stop, q) == str_rfind(SkipTake(line, 0, stop), q)

\* EditorScreen::rfind: the loop from row i down
RECURSIVE rfind_loop(_, _, _)
RECURSIVE rfind_row(_, _, _, _)
RECURSIVE rfind_hit(_, _, _, _)
rfind_loop(s, q, i) ==
    IF i < 0 THEN Returned(s, FALSE)
    ELSE IF ~has_line(s, i) THEN rfind_loop(s, q, i - 1)
    ELSE rfind_row(s, q, i, IF i = s.cy THEN s.cx ELSE Len(get_line(s, i)))

rfind_row(s, q, i, stop) ==
    IF stop > Len(get_line(s, i)) THEN Returned(Panic(s), FALSE)
    ELSE rfind_hit(s, q, i, rfind_window(get_line(s, i), stop, q))

rfind_hit(s, q, i, j) ==
    IF j # NotFound THEN Returned([s EXCEPT !.cx = j, !.cy = i], TRUE)
    ELSE rfind_loop(s, q, i - 1)

rfind(s, q) == IF s.panicked THEN Returned(s, FALSE) ELSE rfind_loop(s, q, s.cy)

\* ------------------------------------------------- find and rfind on their own
FindChars == {"a", "b"}

\* the texts of at most n characters
TextsUpTo(n) == UNION {[1..k -> FindChars] : k \in 0..n}

\* the buffers of a plain text file of at most MaxFindRows lines of at most
\* MaxFindLen characters
FindBuffers ==
    {[k \in 1..Len(raws) |-> EditorLine_new(raws[k], "None")] :
        raws \in UNION {[1..n -> TextsUpTo(MaxFindLen)] : n \in 0..MaxFindRows}}

\* a buffer, a cursor that is on a line (at most at its end) or parked on the
\* row after the last line, and a query; no search made yet
InitFind ==
    /\ lines \in FindBuffers
    /\ file_type = "None" /\ filepath = NoPath /\ file_text = <<>> /\ dirty = FALSE
    /\ cy \in 0..MaxFindRows /\ cy <= Len(lines)
    /\ cx \in 0..MaxFindLen
    /\ cy < Len(lines) => cx <= Len(lines[cy + 1].raw)
    /\ rx = 0 /\ offset_x = 0 /\ offset_y = 0
    /\ panicked = FALSE
    /\ lastCmd = "None" /\ preLen = 0
    /\ mode = "edit" /\ direction = "Down" /\ last_match = TRUE
    /\ query \in TextsUpTo(MaxQuery)
    /\ saved = [cx |-> 0, cy |-> 0, offset_x |-> 0, offset_y |-> 0]
    /\ result = "Ok" /\ quit_times = QUIT_TIMES
    /\ InitKey

\* the call made: the cursor and the value returned are stored
Call(kind, t) ==
    /\ cx' = t.screen.cx /\ cy' = t.screen.cy
    /\ panicked' = t.screen.panicked
    /\ last_match' = t.ret
    /\ lastCmd' = kind
    /\ UNCHANGED <<lines, file_type, dirty, rx, offset_x, offset_y, preLen,
                   file_text, mode, query, direction, saved, result, quit_times,
                   filepath, key_vars>>

\* screen.find(query) as the first call
Find ==
    /\ lastCmd = "None"
    /\ \E t \in {find(Screen, query)} : Call("find", t)

\* screen.rfind(query) as the first call, or right after a find
RFind ==
    /\ lastCmd \in {"None", "find"}
    /\ ~panicked
    /\ \E t \in {rfind(Screen, query)} :
           Call(IF lastCmd = "find" THEN "find, rfind" ELSE "rfind", t)

NextFind == Find \/ RFind

SpecFind == InitFind /\ [][NextFind]_vars

\* position (r, c) is at or after position (r0, c0) in row-major order
AtOrAfter(r, c, r0, c0) == r > r0 \/ (r = r0 /\ c >= c0)

\* the query occurs in row r (0-based) of the buffer at column c
OccursAt(r, c) ==
    /\ r < Len(lines)
    /\ c + Len(query) <= Len(lines[r + 1].raw)
    /\ SkipTake(lines[r + 1].raw, c, Len(query)) = query

\* the positions of the buffer
Positions == {p \in (0..MaxFindRows) \X (0..(MaxFindLen + 1)) : p[1] < Len(lines)}

\* the occurrences that start at or after the cursor
OccurrencesAhead == {p \in Positions : OccursAt(p[1], p[2]) /\ AtOrAfter(p[1], p[2], cy, cx)}

\* C17: find from a cursor with cx <= length of line cy returns true exactly
\* when an occurrence of the query starts at or after the cursor in row-major
\* order, and then puts the cursor on the earliest one; otherwise it returns
\* false and leaves the cursor where it was.
C17_FindEarliestAhead ==
    [][lastCmd' = "find" =>
          /\ ~panicked'
          /\ last_match' = (OccurrencesAhead # {})
          /\ last_match' =>
                 /\ <<cy', cx'>> \in OccurrencesAhead
                 /\ \A p \in OccurrencesAhead : AtOrAfter(p[1], p[2], cy', cx')
          /\ ~last_match' => (cx' = cx /\ cy' = cy)]_vars

\* find has put the cursor on the occurrence in the second row
C17_Witness ==
    /\ lastCmd = "find" /\ last_match
    /\ Len(query) > 0
    /\ Raws(lines) = << <<"a", "b">>, <<"b", "a">> >>
    /\ query = <<"a">> /\ cx = 1 /\ cy = 1

\* the occurrences that lie wholly before the cursor: in columns [0, cx) of
\* row cy, or anywhere on a row above
OccurrencesBehind ==
    {p \in Positions : /\ OccursAt(p[1], p[2])
                       /\ \/ p[1] < cy
                          \/ p[1] = cy /\ p[2] + Len(query) <= cx}

\* C18: rfind returns true exactly when an occurrence of the query lies within
\* columns [0, cx) of row cy or on a row above, and then puts the cursor on the
\* start of the latest one; otherwise it returns false and leaves the cursor
\* where it was.
C18_RfindLatestBehind ==
    [][lastCmd' \in {"rfind", "find, rfind"} =>
          /\ ~panicked'
          /\ last_match' = (OccurrencesBehind # {})
          /\ last_match' =>
                 /\ <<cy', cx'>> \in OccurrencesBehind
                 /\ \A p \in OccurrencesBehind : AtOrAfter(cy', cx', p[1], p[2])
          /\ ~last_match' => (cx' = cx /\ cy' = cy)]_vars

\* rfind has skipped an occurrence that runs past the cursor and has moved to
\* the one before it
C18_Witness ==
    /\ lastCmd = "rfind" /\ last_match
    /\ Raws(lines) = << <<"a", "a", "a">> >>
    /\ query = <<"a", "a">> /\ cx = 0 /\ cy = 0

\* C19, as the code has it: rfind right after a successful find of a query of
\* at least one character never returns to the match that find found; it fails
\* and leaves the cursor on that match when no occurrence lies wholly before
\* it, and otherwise moves to the latest occurrence that does.
C19_RfindLeavesMatch ==
    [][(last_match /\ lastCmd' = "find, rfind" /\ Len(query) > 0) =>
          /\ last_match' = (OccurrencesBehind # {})
          /\ last_match' =>
                 /\ <<cy', cx'>> # <<cy, cx>>
                 /\ <<cy', cx'>> \in OccurrencesBehind
                 /\ \A p \in OccurrencesBehind : AtOrAfter(cy', cx', p[1], p[2])
          /\ ~last_match' => (cx' = cx /\ cy' = cy)]_vars

\* C19: rfind right after a successful find returns the cursor to the match
\* that find found.
C19_RoundTrip ==
    [][(last_match /\ lastCmd' = "find, rfind") =>
          (last_match' /\ cx' = cx /\ cy' = cy)]_vars

\* after find had found the second `a` of `aa`, rfind has moved to the first
C19_Witness ==
    /\ lastCmd = "find, rfind" /\ last_match
    /\ Raws(lines) = << <<"a", "a">> >>
    /\ query = <<"a">> /\ cx = 0 /\ cy = 0


\* ------------------------------------------------- pane.rs: the search session
\* usize::MAX; the model's usize is 31 bits wide
USIZE_MAX == 2147483647

\* EditorScreen::set_cursor and set_offset
set_cursor(s, x, y) == IF s.panicked THEN s ELSE [s EXCEPT !.cx = x, !.cy = y]

set_offset(s, x, y) ==
    IF s.panicked THEN s ELSE [s EXCEPT !.offset_x = x, !.offset_y = y]

\* EditorLine::highlight, where end is within the line
EditorLine_highlight(el, begin, stop, tag) ==
    [el EXCEPT !.highlight = SetRange(el.highlight, begin, stop, tag)]

\* a faulty variant of buffer_highlight_range: the buffer is marked as changed
buffer_highlight_range_dirty(s, row, begin, stop, tag) ==
    IF begin < stop /\ stop > Len(s.lines[row + 1].highlight) THEN Panic(s)
    ELSE [s EXCEPT !.lines[row + 1] = EditorLine_highlight(s.lines[row + 1], begin, stop, tag),
                   !.dirty = TRUE]

\* EditorBuffer::highlight with begin and end computed
buffer_highlight_range(s, row, begin, stop, tag) ==
    IF begin < stop /\ stop > Len(s.lines[row + 1].highlight) THEN Panic(s)
    ELSE [s EXCEPT !.lines[row + 1] = EditorLine_highlight(s.lines[row + 1], begin, stop, tag)]

\* EditorBuffer::highlight
buffer_highlight(s, x, row, width, tag) ==
    IF s.panicked THEN s
    ELSE IF ~has_line(s, row) THEN Panic(s)
    ELSE buffer_highlight_range(s, row, cx_to_rx(s, x, row), cx_to_rx(s, x + width, row), tag)

\* the callback's highlight of the match under the cursor
highlight_match(s, q) == buffer_highlight(s, s.cx, s.cy, Len(q), "Match")

\* the callback's move to the end of the buffer when the last step did not
\* match: `buffer_len - 1` and `last_line.len() - 1` panic on underflow in a
\* build with overflow checks and wrap in a build without
wrap_to_last_line(s, buffer_len, last_len, overflow_checks) ==
    IF last_len = 0
    THEN IF overflow_checks THEN Panic(s) ELSE set_cursor(s, USIZE_MAX, buffer_len)
    ELSE set_cursor(s, last_len - 1, buffer_len)

wrap_to_end(s, overflow_checks) ==
    IF s.panicked THEN s
    ELSE IF Len(s.lines) = 0
    THEN IF overflow_checks THEN Panic(s) ELSE s
    ELSE wrap_to_last_line(s, Len(s.lines), Len(get_line(s, Len(s.lines) - 1)),
                           overflow_checks)

\* the arrow arms after the search r made from the cursor (x, y): the match
\* highlighted or the cursor put back, then adjust
arrow_done(r, x, y, q) ==
    Returned(adjust(IF r.ret
                    THEN highlight_match(clear_highlight(r.screen, y), q)
                    ELSE set_cursor(r.screen, x, y)),
             r.ret)

\* the arrow arms from the cursor of s on
arrow_up_from(s, q) == arrow_done(rfind(left(s), q), s.cx, s.cy, q)
arrow_down_from(s, q) == arrow_done(find(right(s), q), s.cx, s.cy, q)

\* the callback's arm of Key::ArrowUp | Key::ArrowLeft
callback_up(s, q, matched, overflow_checks) ==
    arrow_up_from(IF matched THEN s ELSE wrap_to_end(s, overflow_checks), q)

\* the callback's arm of Key::ArrowDown | Key::ArrowRight
callback_down(s, q, matched) ==
    arrow_down_from(IF matched THEN s ELSE set_cursor(s, 0, 0), q)

\* the `_` arm after the search r made from row y
other_cleared(s, ret, q) == Returned(adjust(IF ret THEN highlight_match(s, q) ELSE s), ret)

other_done(r, y, q) == other_cleared(clear_highlight(r.screen, y), r.ret, q)

other_from(s, q, dir) ==
    other_done(IF dir = "Up" THEN rfind(s, q) ELSE find(s, q), s.cy, q)

\* the callback's `_` arm
callback_other(s, q, matched, dir, overflow_checks) ==
    other_from(IF matched THEN s
               ELSE IF dir = "Up" THEN wrap_to_end(s, overflow_checks)
               ELSE set_cursor(s, 0, 0),
               q, dir)

\* process_find_command after the prompt returned Err: cursor and offsets put
\* back, adjust
restore(s, sv) ==
    adjust(set_offset(set_cursor(s, sv.cx, sv.cy), sv.offset_x, sv.offset_y))

\* ------------------------------------------------- searching a loaded file
RECURSIVE TotalLen(_)
TotalLen(text) == IF text = <<>> THEN 0 ELSE Len(Head(text)) + TotalLen(Tail(text))

\* the files that are searched: at most MaxSearchRows lines and MaxSearchChars
\* characters
SearchTexts ==
    {text \in UNION {[1..n -> TextsUpTo(MaxSearchChars)] : n \in 0..MaxSearchRows} :
        TotalLen(text) <= MaxSearchChars}

InitSearch ==
    /\ InitScreen
    /\ file_type = "None" /\ filepath = NoPath
    /\ file_text \in SearchTexts

\* run: the file named on the command line is loaded before the first key
LoadAtStart == lastCmd = "None" /\ LoadFile

\* Command::Find up to the prompt's first read_key
FindCommand ==
    /\ mode = "edit" /\ ~panicked
    /\ mode' = "search"
    /\ query' = <<>> /\ direction' = "Down" /\ last_match' = TRUE
    /\ saved' = [cx |-> cx, cy |-> cy, offset_x |-> offset_x, offset_y |-> offset_y]
    /\ lastCmd' = "Find"
    /\ preLen' = Len(lines)
    /\ UNCHANGED <<lines, file_type, dirty, cx, cy, rx, offset_x, offset_y,
                   panicked, file_text, result, quit_times, filepath,
                   key_vars>>

\* the editor after a key of the prompt
Stored(t) ==
    /\ lines' = t.lines /\ dirty' = t.dirty
    /\ cx' = t.cx /\ cy' = t.cy /\ rx' = t.rx
    /\ offset_x' = t.offset_x /\ offset_y' = t.offset_y
    /\ panicked' = t.panicked
    /\ preLen' = Len(lines)
    /\ UNCHANGED <<file_type, file_text, filepath, key_vars>>

\* a key after which the prompt goes on
PromptStep(kind, t, q, dir) ==
    /\ Stored(t.screen)
    /\ last_match' = t.ret
    /\ query' = q /\ direction' = dir
    /\ lastCmd' = kind
    /\ UNCHANGED <<mode, saved, result, quit_times>>

\* the prompt has returned: process_find_command returns Ok(()) and
\* process_command's post_process follows
PromptReturn(kind, t) ==
    /\ Stored(post_process(t))
    /\ result' = "Ok" /\ quit_times' = QUIT_TIMES
    /\ mode' = "edit"
    /\ query' = <<>> /\ direction' = "Down" /\ last_match' = TRUE
    /\ saved' = [cx |-> 0, cy |-> 0, offset_x |-> 0, offset_y |-> 0]
    /\ lastCmd' = kind

\* Key::NormalKey(c)
PromptChar ==
    /\ mode = "search" /\ ~panicked
    /\ Len(query) < MaxQuery
    /\ \E c \in FindChars : \E overflow_checks \in BOOLEAN :
           \E t \in {callback_other(Screen, Append(query, c), last_match, direction,
                                    overflow_checks)} :
               PromptStep("SearchChar", t, Append(query, c), direction)

\* Key::ArrowUp, Key::ArrowLeft
PromptUp ==
    /\ mode = "search" /\ ~panicked
    /\ \E overflow_checks \in BOOLEAN :
           \E t \in {callback_up(Screen, query, last_match, overflow_checks)} :
               PromptStep("SearchUp", t, query, "Up")

\* Key::ArrowDown, Key::ArrowRight
PromptDown ==
    /\ mode = "search" /\ ~panicked
    /\ \E t \in {callback_down(Screen, query, last_match)} :
           PromptStep("SearchDown", t, query, "Down")

\* any other key that is not Enter or Escape (Backspace, Delete, PageUp, ...)
PromptOther ==
    /\ mode = "search" /\ ~panicked
    /\ \E overflow_checks \in BOOLEAN :
           \E t \in {callback_other(Screen, query, last_match, direction,
                                    overflow_checks)} :
               PromptStep("SearchOther", t, query, direction)

\* Key::Enter
PromptEnter ==
    /\ mode = "search" /\ ~panicked
    /\ \E overflow_checks \in BOOLEAN :
           \E t \in {callback_other(Screen, query, last_match, direction,
                                    overflow_checks)} :
               PromptReturn("SearchEnter", t.screen)

\* Key::Escape
PromptEscape ==
    /\ mode = "search" /\ ~panicked
    /\ \E overflow_checks \in BOOLEAN :
           \E t \in {callback_other(Screen, query, last_match, direction,
                                    overflow_checks)} :
               PromptReturn("SearchEscape", restore(t.screen, saved))

\* read_key returns Err: `?` makes the prompt return it without a call of the
\* callback, and process_find_command takes it for the Err of an abort
PromptReadError ==
    /\ mode = "search" /\ ~panicked
    /\ PromptReturn("SearchReadError", restore(Screen, saved))

NextSearch ==
    \/ LoadAtStart
    \/ FindCommand
    \/ PromptChar \/ PromptUp \/ PromptDown \/ PromptOther
    \/ PromptEnter \/ PromptEscape \/ PromptReadError
    \/ ArrowDown \/ ArrowRight

SpecSearch == InitSearch /\ [][NextSearch]_vars


\* the kinds of the keys after which the prompt goes on
SearchSteps == {"SearchChar", "SearchUp", "SearchDown", "SearchOther"}

\* render column j (1-based) of row r (1-based) belongs to the match of the
\* query under the cursor
InCurrentMatch(r, j) ==
    /\ r = cy + 1
    /\ j > line_cx_to_rx(lines[r].raw, cx)
    /\ j <= line_cx_to_rx(lines[r].raw, cx + Len(query))

\* C15: during a search session, after every successful search step the
\* characters tagged Match in the whole buffer are exactly the render columns
\* of the current match on the cursor's line.
C15_OnlyCurrentMatchTagged ==
    (mode = "search" /\ lastCmd \in SearchSteps /\ last_match /\ ~panicked) =>
        \A r \in 1..Len(lines) : \A j \in 1..Len(lines[r].highlight) :
            lines[r].highlight[j] = "Match" <=> InCurrentMatch(r, j)

\* a state where C15 fails: the search for `a` in `aa` is on the second `a`
\* and the first is still tagged Match
C15_Witness ==
    /\ mode = "search" /\ lastCmd = "SearchUp" /\ last_match
    /\ Raws(lines) = << <<"a", "a">> >>
    /\ query = <<"a">> /\ cx = 1 /\ cy = 0
    /\ lines[1].highlight = <<"Match", "Match">>

\* C16: when a search session has ended, no character of any line is tagged
\* Match.
C16_NoMatchAfterSession ==
    mode = "edit" =>
        \A r \in 1..Len(lines) : \A j \in 1..Len(lines[r].highlight) :
            lines[r].highlight[j] # "Match"

\* a state where C16 fails: Enter has ended the search for `a` in the line `a`
\* and the `a` is still tagged Match
C16_Witness ==
    /\ mode = "edit" /\ lastCmd = "SearchEnter"
    /\ Raws(lines) = << <<"a">> >>
    /\ lines[1].highlight = <<"Match">>

\* the positions (row, column) at which q occurs in the buffer
OccurrencesOf(q) ==
    {p \in Positions : /\ p[2] + Len(q) <= Len(lines[p[1] + 1].raw)
                       /\ SkipTake(lines[p[1] + 1].raw, p[2], Len(q)) = q}

\* C20: when the previous search step did not match, the next forward step
\* finds the earliest occurrence of the query in the whole buffer, one at row 0
\* column 0 included, and the next backward step the latest, one that ends at
\* the end of the last line included (steps that abort the program left out).
C20_WrappedStepSearchesAll ==
    [][(mode = "search" /\ ~last_match /\ lastCmd' \in SearchSteps /\ ~panicked') =>
          /\ last_match' = (OccurrencesOf(query') # {})
          /\ last_match' =>
                 /\ <<cy', cx'>> \in OccurrencesOf(query')
                 /\ \A p \in OccurrencesOf(query') :
                        IF direction' = "Down"
                        THEN AtOrAfter(p[1], p[2], cy', cx')
                        ELSE AtOrAfter(cy', cx', p[1], p[2])]_vars

\* a state where C20 fails: the search for `a` in the line `ab` has failed
\* forward, though `a` occurs at row 0 column 0
C20_Witness ==
    /\ mode = "search" /\ lastCmd = "SearchDown" /\ ~last_match
    /\ Raws(lines) = << <<"a", "b">> >>
    /\ query = <<"a">> /\ cx = 0 /\ cy = 0


\* C21: a search step that finds no match leaves the cursor exactly where it
\* was before that step, also when the step follows an earlier failed step.
C21_FailedStepKeepsCursor ==
    [][(mode = "search" /\ lastCmd' \in SearchSteps /\ ~last_match' /\ ~panicked') =>
          (cx' = cx /\ cy' = cy)]_vars

\* a state where C21 fails: the search for `b` in the line `a` began on the
\* row after the line, no step has matched, and the cursor is at (0, 0)
C21_Witness ==
    /\ mode = "search" /\ lastCmd = "SearchDown" /\ ~last_match
    /\ Raws(lines) = << <<"a">> >>
    /\ query = <<"b">>
    /\ saved.cx = 0 /\ saved.cy = 1
    /\ cx = 0 /\ cy = 0

\* C22: when the search prompt is aborted with Escape, the cursor and the
\* offsets after the command are those of the start of the search command, and
\* the raw content of the buffer is unchanged.
C22_EscapeRestores ==
    [][lastCmd' = "SearchEscape" =>
          /\ ~panicked'
          /\ cx' = saved.cx /\ cy' = saved.cy
          /\ offset_x' = saved.offset_x /\ offset_y' = saved.offset_y
          /\ Raws(lines') = Raws(lines)]_vars

\* a state where C22 fails: Escape has aborted the program in a search of the
\* empty buffer
C22_Witness ==
    /\ lastCmd = "SearchEscape" /\ panicked
    /\ lines = <<>>


\* C23: a read error raised while a key of the search prompt is read makes
\* process_command return an error, which tells it from an abort with Escape,
\* after which process_command returns Ok.
C23_ReadErrorReturned ==
    /\ lastCmd = "SearchReadError" => result = "Err"
    /\ lastCmd = "SearchEscape" => result = "Ok"

\* a state where C23 fails: the read error in the prompt has ended the search
\* command and process_command has returned Ok
C23_Witness ==
    /\ lastCmd = "SearchReadError" /\ result = "Ok"
    /\ mode = "edit" /\ ~panicked


\* ------------------------------------------------- key.rs: read_editor_key
\* Bytes and characters are numbers: `buf[0] as char` is the character with the
\* byte's code.
ESC == 27

Bytes == 0..255

\* the errors a read can return
ReadErrors == {"Interrupted", "Other"}

\* escape_sequence_table
escape_sequence_table ==
    << [seq |-> <<27, 91, 65>>, key |-> "ArrowUp"],
       [seq |-> <<27, 91, 66>>, key |-> "ArrowDown"],
       [seq |-> <<27, 91, 67>>, key |-> "ArrowRight"],
       [seq |-> <<27, 91, 68>>, key |-> "ArrowLeft"],
       [seq |-> <<27, 91, 72>>, key |-> "Home"],
       [seq |-> <<27, 91, 70>>, key |-> "End"],
       [seq |-> <<27, 91, 49, 126>>, key |-> "Home"],
       [seq |-> <<27, 91, 51, 126>>, key |-> "Delete"],
       [seq |-> <<27, 91, 52, 126>>, key |-> "End"],
       [seq |-> <<27, 91, 53, 126>>, key |-> "PageUp"],
       [seq |-> <<27, 91, 54, 126>>, key |-> "PageDown"],
       [seq |-> <<27, 91, 55, 126>>, key |-> "Home"],
       [seq |-> <<27, 91, 56, 126>>, key |-> "End"],
       [seq |-> <<27, 79, 72>>, key |-> "Home"],
       [seq |-> <<27, 79, 70>>, key |-> "End"] >>

\* a faulty starts_with that compares the first byte only
starts_with_first_byte(seq, buf) == seq[1] = buf[1]

\* str::starts_with
starts_with(seq, buf) == Len(buf) <= Len(seq) /\ SubSeq(seq, 1, Len(buf)) = buf

\* `matches`: the entries of the table that start with buf
matches(buf) ==
    {n \in 1..Len(escape_sequence_table) : starts_with(escape_sequence_table[n].seq, buf)}

\* a faulty test of the matches that returns the key of a single candidate
\* before its sequence is complete
escape_matched_early(buf, ms) ==
    IF ms = {} THEN Key("Escape")
    ELSE IF Cardinality(ms) = 1
    THEN Key(escape_sequence_table[CHOOSE n \in ms : TRUE].key)
    ELSE Reading

\* the tests of the matches ms of buf: Escape, the key of the one entry that
\* equals buf, or the loop goes on
escape_matched(buf, ms) ==
    IF ms = {} THEN Key("Escape")
    ELSE IF Cardinality(ms) = 1 /\ buf = escape_sequence_table[CHOOSE n \in ms : TRUE].seq
    THEN Key(escape_sequence_table[CHOOSE n \in ms : TRUE].key)
    ELSE Reading

\* one turn of the loop of the escape arm, c2 pushed to buf
escape_branch(buf) == escape_matched(buf, matches(buf))

\* a faulty match on the first byte that returns Escape for ESC at once
first_byte_escape_alone(c) ==
    IF c = 13 THEN Key("Enter")
    ELSE IF 1 <= c /\ c < 27 THEN KeyOf("ControlSequence", (c + 97 - 1) % 256)
    ELSE IF c = ESC THEN Key("Escape")
    ELSE IF c = 127 THEN Key("Backspace")
    ELSE KeyOf("NormalKey", c)

\* a faulty match on the first byte without the arm of '\r'
first_byte_without_enter(c) ==
    IF 1 <= c /\ c < 27 THEN KeyOf("ControlSequence", (c + 97 - 1) % 256)
    ELSE IF c = ESC THEN Reading
    ELSE IF c = 127 THEN Key("Backspace")
    ELSE KeyOf("NormalKey", c)

\* `match c` on the first byte; the escape arm goes on reading
first_byte(c) ==
    IF c = 13 THEN Key("Enter")
    ELSE IF 1 <= c /\ c < 27 THEN KeyOf("ControlSequence", (c + 97 - 1) % 256)
    ELSE IF c = ESC THEN Reading
    ELSE IF c = 127 THEN Key("Backspace")
    ELSE KeyOf("NormalKey", c)

\* a faulty read_single_key that lets go of the error and returns Escape
read_error_dropped(e) == Key("Escape")

\* read_single_key on Err(e): `?` returns it from read_editor_key
read_error(e) == Failed(e)

\* a faulty read_single_key that takes a zero-byte read for the end of the
\* stream
read_zero_is_eof(out) == Failed("UnexpectedEof")

\* read_single_key on Ok(0): `continue`
read_zero(out) == out

\* reader.read returns Ok(1) with the byte b
ReadByte ==
    /\ key_out = Reading
    /\ \E b \in Bytes :
           /\ key_buf' = Append(key_buf, b)
           /\ key_out' = IF key_buf = <<>> THEN first_byte(b)
                         ELSE escape_branch(Append(key_buf, b))
           /\ last_read' = ReadOf("Byte", b)
    /\ UNCHANGED <<zero_reads>>
    /\ UNCHANGED <<lines, file_type, dirty, cx, cy, rx, offset_x, offset_y,
                   panicked, lastCmd, preLen, file_text, search_vars, result,
                   quit_times, filepath>>

\* reader.read returns Ok(0)
ReadZero ==
    /\ key_out = Reading
    /\ zero_reads < MaxZeroReads
    /\ zero_reads' = zero_reads + 1
    /\ key_out' = read_zero(key_out)
    /\ last_read' = ReadOf("Zero", 0)
    /\ UNCHANGED <<key_buf>>
    /\ UNCHANGED <<lines, file_type, dirty, cx, cy, rx, offset_x, offset_y,
                   panicked, lastCmd, preLen, file_text, search_vars, result,
                   quit_times, filepath>>

\* reader.read returns Err(e)
ReadError ==
    /\ key_out = Reading
    /\ \E e \in ReadErrors :
           /\ key_out' = read_error(e)
           /\ last_read' = ReadOf("Err", e)
    /\ UNCHANGED <<key_buf, zero_reads>>
    /\ UNCHANGED <<lines, file_type, dirty, cx, cy, rx, offset_x, offset_y,
                   panicked, lastCmd, preLen, file_text, search_vars, result,
                   quit_times, filepath>>

\* the next call of read_editor_key after one that returned a key
NextCall ==
    /\ key_out.status = "Ok"
    /\ key_buf' = <<>> /\ key_out' = Reading /\ zero_reads' = 0
    /\ UNCHANGED <<last_read>>
    /\ UNCHANGED <<lines, file_type, dirty, cx, cy, rx, offset_x, offset_y,
                   panicked, lastCmd, preLen, file_text, search_vars, result,
                   quit_times, filepath>>

InitKeys ==
    /\ InitScreen
    /\ file_type = "None" /\ filepath = NoPath
    /\ file_text = <<>>

NextKeys == ReadByte \/ ReadZero \/ ReadError \/ NextCall

SpecKeys == InitKeys /\ [][NextKeys]_vars

\* the source delivers a byte in the end
SpecKeysLive == SpecKeys /\ WF_vars(ReadByte)

\* buf is a prefix of seq
IsPrefix(buf, seq) ==
    /\ Len(buf) <= Len(seq)
    /\ \A j \in 1..Len(buf) : buf[j] = seq[j]

\* buf is a proper prefix of the sequence of some table entry
ProperPrefix(buf) ==
    \E n \in 1..Len(escape_sequence_table) :
        /\ IsPrefix(buf, escape_sequence_table[n].seq)
        /\ Len(buf) < Len(escape_sequence_table[n].seq)

\* C24: after the bytes of a table entry the call has returned that entry's
\* key, and before the last of them it is still reading; no entry is a proper
\* prefix of another.
C24_TableSequencesDecoded ==
    \A n \in 1..Len(escape_sequence_table) :
        /\ key_buf = escape_sequence_table[n].seq
               => key_out = Key(escape_sequence_table[n].key)
        /\ (/\ key_buf # <<>>
            /\ IsPrefix(key_buf, escape_sequence_table[n].seq)
            /\ key_buf # escape_sequence_table[n].seq
            /\ key_out.status # "Err")
               => key_out = Reading
        /\ \A m \in 1..Len(escape_sequence_table) :
               m # n => ~IsPrefix(escape_sequence_table[m].seq,
                                  escape_sequence_table[n].seq)

\* the call has returned Home for ESC [ 1 ~
C24_Witness ==
    /\ key_buf = <<27, 91, 49, 126>>
    /\ key_out = Key("Home")

\* C25: after ESC, as soon as a byte leaves no table entry with the
\* accumulated buffer as a prefix the call has returned Escape; while an entry
\* has the buffer as a proper prefix the call is reading.
C25_EscapeOnMismatch ==
    (Len(key_buf) >= 2 /\ last_read.kind = "Byte") =>
        /\ (\A n \in 1..Len(escape_sequence_table) :
                ~IsPrefix(key_buf, escape_sequence_table[n].seq))
               => key_out = Key("Escape")
        /\ ProperPrefix(key_buf) => key_out = Reading
        /\ ProperPrefix(SubSeq(key_buf, 1, Len(key_buf) - 1))

\* the call has returned Escape at the third byte of ESC [ 9
C25_Witness ==
    /\ key_buf = <<27, 91, 57>>
    /\ key_out = Key("Escape")

\* the key a first byte other than ESC stands for
PlainKey(b) ==
    IF b = 13 THEN Key("Enter")
    ELSE IF b = 127 THEN Key("Backspace")
    ELSE IF b \in 1..26 THEN KeyOf("ControlSequence", b + 96)
    ELSE KeyOf("NormalKey", b)

\* C26: for a first byte other than 0x1B the call consumes that byte only and
\* returns Enter for 0x0D, Backspace for 0x7F, ControlSequence(byte + 0x60) for
\* the other bytes of 0x01..0x1A and NormalKey(byte) for the rest.
C26_PlainBytes ==
    (key_buf # <<>> /\ key_buf[1] # ESC /\ last_read.kind = "Byte") =>
        /\ Len(key_buf) = 1
        /\ key_out = PlainKey(key_buf[1])

\* the call has returned ControlSequence('z') for the byte 0x1A
C26_Witness ==
    /\ key_buf = <<26>>
    /\ key_out = KeyOf("ControlSequence", 122)

\* C27: when a read returns an error, the call has returned that error and no
\* key, on the first byte and in the middle of an escape sequence.
C27_ReadErrorPropagated ==
    last_read.kind = "Err" =>
        /\ key_out.status = "Err"
        /\ key_out.err = last_read.val
        /\ key_out.key = "None"

\* the call has returned the error of the read after ESC [
C27_Witness ==
    /\ key_buf = <<27, 91>>
    /\ last_read = ReadOf("Err", "Interrupted")
    /\ key_out = Failed("Interrupted")

\* C28: a zero-byte read consumes nothing and leaves the call reading; a call
\* consumes at most 4 bytes, and when the source delivers a byte in the end
\* every call returns.
C28_ZeroReadsRetried ==
    /\ [][last_read'.kind = "Zero" => (key_buf' = key_buf /\ key_out' = Reading)]_vars
    /\ [](Len(key_buf) <= 4)
    /\ [](key_out.status = "Ok" => Len(key_buf) >= 1)
    /\ (key_out = Reading ~> key_out # Reading)

\* the call has returned a key after 4 bytes and zero-byte reads
C28_Witness ==
    /\ Len(key_buf) = 4
    /\ zero_reads > 0
    /\ key_out.status = "Ok"


\* C30: Right with cx at the end of line cy moves the cursor to (0, cy + 1)
\* only if line cy + 1 exists and otherwise leaves it where it is; Left at
\* column 0 of a row cy > 0 moves it to the end of line cy - 1, and Left at
\* (0, 0) leaves it where it is.
C30_RightLeftAtLineEnds ==
    [][/\ (ArrowRight /\ cy < Len(lines) /\ cx = Len(lines[cy + 1].raw)) =>
              IF cy + 1 < Len(lines) THEN cx' = 0 /\ cy' = cy + 1
              ELSE cx' = cx /\ cy' = cy
       /\ (ArrowLeft /\ cx = 0 /\ cy > 0 /\ cy <= Len(lines)) =>
              (cy' = cy - 1 /\ cx' = Len(lines[cy].raw))
       /\ (ArrowLeft /\ cx = 0 /\ cy = 0) => (cx' = 0 /\ cy' = 0)]_vars


\* ------------------------------------------------- the buffer operations on their own
\* a buffer and the row cy and column cx an operation is called with, in and
\* out of range; no operation called yet
InitBuffer ==
    /\ lines \in FindBuffers
    /\ file_type = "None" /\ filepath = NoPath /\ file_text = <<>> /\ dirty = FALSE
    /\ cy \in 0..(MaxFindRows + 1)
    /\ cx \in 0..(MaxFindLen + 1)
    /\ rx = 0 /\ offset_x = 0 /\ offset_y = 0
    /\ panicked = FALSE
    /\ lastCmd = "None" /\ preLen = 0
    /\ mode = "edit" /\ query = <<>> /\ direction = "Down" /\ last_match = TRUE
    /\ saved = [cx |-> 0, cy |-> 0, offset_x |-> 0, offset_y |-> 0]
    /\ result = "Ok" /\ quit_times = QUIT_TIMES
    /\ InitKey

\* the operation called on the buffer, with what it leaves
BufferCall(kind, t) ==
    /\ lastCmd = "None"
    /\ lines' = t.lines /\ dirty' = t.dirty /\ panicked' = t.panicked
    /\ lastCmd' = kind
    /\ UNCHANGED <<file_type, cx, cy, rx, offset_x, offset_y, preLen, file_text,
                   search_vars, result, quit_times, filepath, key_vars>>

BufInsertChar == BufferCall("insert_char", buffer_insert_char(Screen, cx, cy, "a"))
BufDeleteChar == BufferCall("delete_char", buffer_delete_char(Screen, cx, cy))
BufAppendString == BufferCall("append_string", append_string(Screen, cx, cy, <<"a", "b">>))
BufInsertLine == BufferCall("insert_line", insert_line(Screen, cy, <<"a">>))
BufDeleteLine == BufferCall("delete_line", delete_line(Screen, cy))
BufReplaceLine == BufferCall("replace_line", replace_line(Screen, cy, <<"a">>))
BufClearHighlight == BufferCall("clear_highlight", clear_highlight(Screen, cy))
BufHighlight == BufferCall("highlight", buffer_highlight(Screen, cx, cy, 1, "Match"))

NextBuffer ==
    \/ BufInsertChar \/ BufDeleteChar \/ BufAppendString
    \/ BufInsertLine \/ BufDeleteLine \/ BufReplaceLine
    \/ BufClearHighlight \/ BufHighlight

SpecBuffer == InitBuffer /\ [][NextBuffer]_vars

\* no line cy
RowOut == cy >= Len(lines)

\* line cy has no column cx, not even the one after its last character
ColumnOut == cy < Len(lines) /\ cx > Len(lines[cy + 1].raw)

\* the call of this kind was made with a row or a column out of range
OutOfRange(kind) ==
    CASE kind \in {"insert_char", "append_string", "highlight"} -> RowOut \/ ColumnOut
      [] kind = "delete_char" -> RowOut \/ (cy < Len(lines) /\ cx >= Len(lines[cy + 1].raw))
      [] kind \in {"delete_line", "replace_line"} -> RowOut
      [] kind \in {"insert_line", "clear_highlight"} -> cy > Len(lines)
      [] OTHER -> FALSE

\* C29: every buffer edit operation called with a row or a column out of range
\* leaves the buffer unchanged and does not fail.
C29_OutOfRangeIsNoOp ==
    [][OutOfRange(lastCmd') => (lines' = lines /\ dirty' = dirty /\ ~panicked')]_vars

\* a state where C29 fails: insert_line at row 2 of a buffer of one line has
\* aborted the program
C29_Witness ==
    /\ lastCmd = "insert_line" /\ panicked
    /\ Len(lines) = 1 /\ cy = 2


\* ------------------------------------------------- the lines of the buffer
\* the render text of the line is that of its raw text, and the line has one
\* highlight tag for each character of the render text
LineConsistent(el) ==
    /\ el.render = convert_render(el.raw)
    /\ Len(el.highlight) = Len(el.render)

\* C31: after every buffer-level operation every line has as many highlight
\* tags as its render text has characters, and its render text is
\* convert_render of its raw text.
C31_LinesConsistent == \A k \in 1..Len(lines) : LineConsistent(lines[k])

\* a character typed into a line with a tab, whose render text is longer than
\* its raw text, in a buffer of two lines
C31_Witness ==
    /\ lastCmd = "Input" /\ ~panicked
    /\ Len(lines) = 2
    /\ \E k \in 1..Len(lines) :
           /\ Len(lines[k].raw) = 2
           /\ Len(lines[k].render) > Len(lines[k].raw)


\* C32: after any sequence of commands the cursor row is at most the number
\* of lines (0 <= cy <= line count).
C32_CyWithinBuffer == cy >= 0 /\ cy <= Len(lines)

\* a state where C32 fails: the cursor row is past the row after the last line
C32_Witness == ~panicked /\ lastCmd = "Cursor" /\ cy > Len(lines)


\* ------------------------------------------------- searching lines with tabs
MaxTabLen == 3

\* the files searched here: at most one line, of tabs and `a`
TabTexts ==
    {<<>>} \cup {<<line>> : line \in UNION {[1..n -> {"\t", "a"}] : n \in 0..MaxTabLen}}

InitTabSearch ==
    /\ InitScreen
    /\ file_type = "None" /\ filepath = NoPath
    /\ file_text \in TabTexts

SpecTabSearch == InitTabSearch /\ [][NextSearch]_vars

\* C33: whenever a search step applies the Match override for a match found
\* at columns [cx, cx + query length) of line cy, the end of the render range
\* [cx_to_rx(cx), cx_to_rx(cx + query length)) is at most the length of the
\* line's render text, which is that of its highlight array.
C33_MatchRangeInside ==
    (mode = "search" /\ lastCmd \in SearchSteps /\ last_match /\ OccursAt(cy, cx)) =>
        /\ line_cx_to_rx(lines[cy + 1].raw, cx + Len(query)) <= Len(lines[cy + 1].render)
        /\ Len(lines[cy + 1].highlight) = Len(lines[cy + 1].render)

\* a state where C33 fails: the search for `a` in the line of two tabs and
\* `a` has aborted the program
C33_Witness ==
    /\ mode = "search" /\ lastCmd = "SearchChar" /\ last_match /\ panicked
    /\ Raws(lines) = << <<"\t", "\t", "a">> >>
    /\ query = <<"a">> /\ cx = 2 /\ cy = 0


\* the step taken evaluates `buffer_len - 1`, and `last_line.len() - 1` if the
\* buffer has a last line: the last step did not match and the step is
\* ArrowUp | ArrowLeft, or the `_` arm with the direction Up
WrapsBackward ==
    /\ mode = "search" /\ ~last_match
    /\ \/ lastCmd' = "SearchUp"
       \/ /\ lastCmd' \in {"SearchChar", "SearchOther", "SearchEnter", "SearchEscape"}
          /\ direction = "Up"

\* C34: in the search callback the backward wrap anchor is computed without
\* unsigned underflow: buffer.len() - 1 and last_line.len() - 1 are evaluated
\* only when the buffer is not empty and its last line is not empty.
C34_WrapWithoutUnderflow ==
    [][WrapsBackward => (Len(lines) > 0 /\ Len(lines[Len(lines)].raw) > 0)]_vars

\* a state where C34 fails: in the empty buffer a second ArrowUp has
\* evaluated 0 - 1 in a build with overflow checks
C34_Witness ==
    /\ lastCmd = "SearchUp" /\ panicked
    /\ lines = <<>> /\ ~last_match


\* ------------------------------------------------- the quit protocol
\* a faulty variant of process_exit_command: the warning does not count
process_exit_command_uncounted(d, qt) ==
    IF d /\ qt > 0 THEN [ret |-> "Ok", quit_times |-> qt]
    ELSE [ret |-> "Err", quit_times |-> qt]

\* process_exit_command on a buffer whose dirty flag is d with the counter
\* qt: what it returns and the counter it leaves (the warning is set exactly
\* when it returns Ok)
process_exit_command(d, qt) ==
    IF d /\ qt > 0 THEN [ret |-> "Ok", quit_times |-> qt - 1]
    ELSE [ret |-> "Err", quit_times |-> qt]

\* process_command for Command::Exit, where process_exit_command returned r:
\* Err is returned by `?` at once; after Ok comes post_process, and the
\* counter is left as `after`
ExitWith(r, after) ==
    /\ ~panicked /\ result = "Ok"
    /\ mode = "edit"
    /\ result' = r.ret
    /\ \E t \in {IF r.ret = "Ok" THEN post_process(Screen) ELSE Screen} :
           /\ lines' = t.lines /\ dirty' = t.dirty
           /\ cx' = t.cx /\ cy' = t.cy /\ rx' = t.rx
           /\ offset_x' = t.offset_x /\ offset_y' = t.offset_y
           /\ panicked' = t.panicked
    /\ quit_times' = after
    /\ lastCmd' = (IF r.ret = "Ok" THEN "ExitWarning" ELSE "Exit")
    /\ preLen' = Len(lines)
    /\ UNCHANGED <<file_type, file_text, filepath, search_vars, key_vars>>

\* Pane::process_command for Command::Exit: the counter is not reset
PaneExit ==
    \E r \in {process_exit_command(dirty, quit_times)} : ExitWith(r, r.quit_times)

\* command.rs, process_command for Command::Exit: after Ok the counter is set
\* to QUIT_TIMES as after every other command
CommandExit ==
    \E r \in {process_exit_command(dirty, quit_times)} :
        ExitWith(r, IF r.ret = "Ok" THEN QUIT_TIMES ELSE r.quit_times)

NextQuit == PaneExit \/ Input \/ Backspace \/ ArrowLeft

SpecQuit == Init /\ [][NextQuit]_vars

NextQuitCommand == CommandExit \/ Input \/ Backspace \/ ArrowLeft

SpecQuitCommand == Init /\ [][NextQuitCommand]_vars

\* the kinds of an Exit command: warned about, or returned as the exit error
ExitKinds == {"Exit", "ExitWarning"}

\* C35: the quit protocol of Pane.  With a dirty buffer an Exit that finds
\* the counter positive returns Ok, shows the warning and decrements the
\* counter, and an Exit that finds it at 0 (the one after QUIT_TIMES
\* consecutive Exits) returns the exit error; every other command sets the
\* counter to QUIT_TIMES; with a clean buffer Exit returns the exit error.
C35_QuitProtocol ==
    [][/\ (lastCmd' \in ExitKinds /\ dirty /\ quit_times > 0) =>
              /\ result' = "Ok" /\ lastCmd' = "ExitWarning"
              /\ quit_times' = quit_times - 1
       /\ (lastCmd' \in ExitKinds /\ (~dirty \/ quit_times = 0)) =>
              (result' = "Err" /\ lastCmd' = "Exit")
       /\ lastCmd' \notin ExitKinds => quit_times' = QUIT_TIMES
       /\ quit_times \in 0..QUIT_TIMES]_vars

\* Exit has returned the exit error on a dirty buffer: the counter is 0, after
\* QUIT_TIMES warnings in a row
C35_Witness ==
    /\ lastCmd = "Exit" /\ result = "Err"
    /\ dirty /\ quit_times = 0

\* C36: in command.rs, Exit repeated on a dirty buffer with no other command
\* in between eventually returns the exit error: an Exit that is warned about
\* leaves the counter, which the next Exit sees, strictly lower than it saw it.
C36_CounterDecreases ==
    [][lastCmd' = "ExitWarning" => quit_times' < quit_times]_vars

\* a state where C36 fails: after a warned Exit the counter is QUIT_TIMES again
C36_Witness ==
    /\ lastCmd = "ExitWarning" /\ result = "Ok"
    /\ dirty /\ quit_times = QUIT_TIMES


\* the editor after Command::Backspace is processed in the editor s
AfterBackspace(s) == post_process(delete_char(s))

\* C37: for every cursor position with cy < line count and cx <= length of
\* line cy, Enter immediately followed by Backspace restores the raw lines of
\* the buffer and the cursor (cx, cy) to what they were before the Enter.
C37_EnterBackspaceRestores ==
    [][(lastCmd' = "Enter" /\ cy < Len(lines) /\ cx <= Len(lines[cy + 1].raw)) =>
          /\ ~AfterBackspace(Screen').panicked
          /\ Raws(AfterBackspace(Screen').lines) = Raws(lines)
          /\ AfterBackspace(Screen').cx = cx
          /\ AfterBackspace(Screen').cy = cy]_vars

\* Enter has split a line in two parts that are not empty, below another line
C37_Witness ==
    /\ lastCmd = "Enter" /\ ~panicked
    /\ Len(lines) = 3 /\ cy = 2 /\ cx = 0
    /\ Len(lines[2].raw) > 0 /\ Len(lines[3].raw) > 0


\* ------------------------------------------------- moving and searching
\* the kinds of the cursor movement commands and of the keys of a search
MoveKinds ==
    {"Cursor", "Find", "SearchEnter", "SearchEscape", "SearchReadError"} \cup SearchSteps

save_file(s, path) ==
    clear_highlight([s EXCEPT !.file_type = select_file_type(path), !.dirty = FALSE], 0)

\* the paths typed at the prompt `Save as: `
SavePaths == {CPath, <<"a">>}

\* Pane::process_command for Command::Save, where process_save_command leaves
\* the editor as body, the file path as fp and the file with these lines
SaveDone(kind, body, fp, text) ==
    /\ ~panicked /\ result = "Ok"
    /\ mode = "edit"
    /\ \E t \in {post_process(body)} :
           /\ lines' = t.lines /\ dirty' = t.dirty /\ file_type' = t.file_type
           /\ cx' = t.cx /\ cy' = t.cy /\ rx' = t.rx
           /\ offset_x' = t.offset_x /\ offset_y' = t.offset_y
           /\ panicked' = t.panicked
    /\ filepath' = fp /\ file_text' = text
    /\ lastCmd' = kind
    /\ preLen' = Len(lines)
    /\ result' = "Ok" /\ quit_times' = QUIT_TIMES
    /\ UNCHANGED <<search_vars, key_vars>>

\* Command::Save: the path is the buffer's, or the one the prompt returns when
\* the buffer has none, and save_file writes the file; or the prompt returns
\* Err, or save_file does before it has changed the buffer
Save ==
    \/ \E path \in (IF filepath = NoPath THEN SavePaths ELSE {filepath[1]}) :
           SaveDone("Save", save_file(Screen, path), SomePath(path), Raws(lines))
    \/ SaveDone("SaveFailed", Screen, filepath, file_text)

\* the editor started on no file, or on an empty one that LoadAtStart loads
InitDirty ==
    /\ InitScreen
    /\ file_type = "None" /\ filepath = NoPath
    /\ file_text = <<>>

NextDirty == LoadAtStart \/ Save \/ Input \/ Backspace

SpecDirty == InitDirty /\ [][NextDirty]_vars

C40_EscapeAfterFurtherByte ==
    [][/\ key_out' = Key("Escape") =>
              /\ Len(key_buf') >= 2 /\ key_buf'[1] = ESC
              /\ key_buf' = Append(key_buf, last_read'.val)
       /\ (key_buf' = <<ESC>> /\ key_out'.status # "Err") => key_out' = Reading
       /\ (key_out = Key("Escape") /\ key_out' = Reading) => key_buf' = <<>>
       /\ (key_buf = <<>> /\ key_buf' # <<>>) =>
              /\ last_read'.kind = "Byte"
              /\ key_buf' = <<last_read'.val>>]_vars

\* the call has returned Escape at the third byte of ESC O A, two bytes after
\* ESC consumed
C40_Witness ==
    /\ key_buf = <<27, 79, 65>>
    /\ key_out = Key("Escape")
    /\ last_read = ReadOf("Byte", 65)

====
